---- MODULE Spec2Model ----
(***************************************************************************)
(* PortfoliAI: the generation-request/response pipeline.                   *)
(*                                                                         *)
(* Three implementations of the pipeline live in the repository:           *)
(*   - OpenAIClient,                                                       *)
(*   - GeminiClient   (lib/geminiClient.ts, the client the preview page    *)
(*                     imports),                                           *)
(*   - the POST handler of app/api/generate-website/route.ts.              *)
(*                                                                         *)
(* Spec follows one invocation of one of them at a time, SpecParse applies *)
(* parseGeneratedCode on its own, SpecPrompt applies buildPrompt on its    *)
(* own, and SpecPage follows PreviewPage (app/instructions/page.tsx) with  *)
(* the generateWebsite and download calls it awaits.                       *)
(* SpecRequest logs the requests the implementations hand to the external *)
(* services.  SpecForm follows FormPage (app/form/page.tsx) through its    *)
(* steps up to the write to local storage; SpecProjects, SpecDates and     *)
(* SpecSkills follow one step of the form each.                            *)
(*                                                                         *)
(* A JavaScript string is modelled as a sequence of tokens.  A token is a  *)
(* piece of text that the regular expressions of the code treat as a unit: *)
(* a complete tag ("<style>", "</html>", ...) or a run of text that holds  *)
(* no tag.  The empty string is the empty sequence.                        *)
(***************************************************************************)
EXTENDS Integers, Sequences, FiniteSets, TLC

VARIABLES
    env,            \* names of the environment variables that hold an API key
    oaClient,       \* OpenAIClient.client !== null
    oaInitialized,  \* OpenAIClient.initialized
    genAI,          \* GeminiClient.genAI !== null
    gemApiKey,      \* GeminiClient.apiKey !== null
    gemInitialized, \* GeminiClient.initialized
    routeOpenai,    \* route.ts module variable openai !== null
    pc,             \* position of the current invocation
    client,         \* which implementation the current invocation runs
    userData,       \* the UserFormData argument of the current invocation
    requests,       \* requests sent to the external service by this invocation
    response,       \* what the external service answered to this invocation
    parserInput,    \* the argument parseGeneratedCode was called with, if any
    outcome,        \* how the invocation settled
    savedFormData,  \* localStorage item portfoliAI_formData
    location,       \* window.location of the preview page
    mounted,        \* the effect of PreviewPage has run
    formData,       \* PreviewPage state formData
    generatedWebsite, \* PreviewPage state generatedWebsite
    isLoading,      \* PreviewPage state isLoading
    isRegenerating, \* PreviewPage state isRegenerating
    generating,     \* the generateWebsite calls the page awaits
    downloading,    \* the downloadWebsiteAsZip calls the page awaits
    lastCall,       \* how the generateWebsite call that settled last settled
    prompt,         \* the text buildPrompt returned, once it has been called
    sentRequests,   \* the requests handed to the external services, in order
    formPageData,   \* FormPage state formData
    currentStep,    \* FormPage state currentStep
    isGenerating,   \* FormPage state isGenerating
    projectsValues, \* ProjectsStep: the values of the form (field projects)
    workHistoryValues, \* WorkHistoryStep: the values of the form (field workHistory)
    educationValues, \* SkillsEducationStep: the values of the form (field education)
    skills,         \* SkillsEducationStep state skills
    currentSkill,   \* SkillsEducationStep state currentSkill
    timers,         \* SkillsEducationStep: the setTimeout callbacks not yet run
    referenceSiteValue \* ReferenceSiteStep: the value of the form (field referenceSite)

vars == <<env, oaClient, oaInitialized, genAI, gemApiKey, gemInitialized,
          routeOpenai, pc, client, userData, requests, response, parserInput,
          outcome, savedFormData, location, mounted, formData,
          generatedWebsite, isLoading, isRegenerating, generating,
          downloading, lastCall, prompt, sentRequests, formPageData,
          currentStep, isGenerating, projectsValues, workHistoryValues, educationValues,
          skills, currentSkill, timers, referenceSiteValue>>

\* the state of PreviewPage
pageVars == <<savedFormData, location, mounted, formData, generatedWebsite,
              isLoading, isRegenerating, generating, downloading, lastCall>>

\* the state of one generateWebsite or POST invocation followed on its own
invocationVars == <<pc, client, userData, requests, response, parserInput,
                    outcome>>

\* the state of the three implementations and their environment
clientVars == <<env, oaClient, oaInitialized, genAI, gemApiKey,
                gemInitialized, routeOpenai>>

\* the state of FormPage and of the steps it shows, and the log of requests
formVars == <<sentRequests, formPageData, currentStep, isGenerating, projectsValues,
              workHistoryValues, educationValues, skills, currentSkill,
              timers, referenceSiteValue>>

----------------------------------------------------------------------------
(* Bounds *)

\* longest response text, in tokens, the external service returns in Spec
MaxToks == 3

\* longest free-form text, in tokens, handed to the parser in SpecParse
MaxParseToks == 4

----------------------------------------------------------------------------
(* Text *)

\* tokens of the response texts of Spec
ResponseAlphabet == {"<!DOCTYPE html>", "</html>", "lorem", "a"}

\* tokens of the texts of SpecParse
ParseAlphabet ==
    {"<!DOCTYPE html>", "<!doctype HTML>", "</html>",
     "<style>", "</style>", "<script>", "</script>", "a"}

\* number of characters of a token; "lorem" stands for a run of 92
\* characters of plain text, "a" for a single character
TokLen(t) ==
    CASE t = "<!DOCTYPE html>" -> 15
      [] t = "<!doctype HTML>" -> 15
      [] t = "</html>"         -> 7
      [] t = "</HTML>"         -> 7
      [] t = "<style>"         -> 7
      [] t = "<STYLE media=\"all\">" -> 19
      [] t = "</style>"        -> 8
      [] t = "<script>"        -> 8
      [] t = "<script defer>"  -> 14
      [] t = "</script>"       -> 9
      [] t = "lorem"           -> 92
      [] OTHER                 -> 1

RECURSIVE StrLen(_)
\* String.prototype.length
StrLen(s) == IF s = <<>> THEN 0 ELSE TokLen(Head(s)) + StrLen(Tail(s))

RECURSIVE SeqsUpTo(_, _)
\* all sequences over S of length at most n
SeqsUpTo(S, n) ==
    IF n = 0 THEN {<<>>}
    ELSE LET shorter == SeqsUpTo(S, n - 1)
         IN  shorter \cup {Append(s, t) : s \in shorter, t \in S}

Tokens(s) == {s[i] : i \in 1..Len(s)}

MinOf(S) == CHOOSE x \in S : \A y \in S : x <= y
MaxOf(S) == CHOOSE x \in S : \A y \in S : x >= y

----------------------------------------------------------------------------
(* Regular expressions of parseGeneratedCode *)

\* /<!DOCTYPE html>/i
IsDoctype(t) == t \in {"<!DOCTYPE html>", "<!doctype HTML>"}

\* /<\/html>/i
IsCloseHtml(t) == t \in {"</html>", "</HTML>"}

\* /<style[^>]*>/i and /<script[^>]*>/i
IsOpenTag(kind, t) ==
    IF kind = "style" THEN t \in {"<style>", "<STYLE media=\"all\">"}
    ELSE t \in {"<script>", "<script defer>"}

\* /<\/style>/i and /<\/script>/i
IsCloseTag(kind, t) ==
    IF kind = "style" THEN t = "</style>" ELSE t = "</script>"

NoMatch == [found |-> FALSE, value |-> <<>>]

\* a faulty variant of HtmlMatch: the span ends at the first closing html tag that
\* follows the doctype (a lazy quantifier)
HtmlMatchLazy(text) ==
    LET ds == {i \in 1..Len(text) : IsDoctype(text[i])}
    IN  IF ds = {} THEN NoMatch
        ELSE LET first == MinOf(ds)
                 es == {j \in (first + 1)..Len(text) : IsCloseHtml(text[j])}
             IN  IF es = {} THEN NoMatch
                 ELSE [found |-> TRUE,
                       value |-> SubSeq(text, first, MinOf(es))]

\* a faulty variant of HtmlMatch: the match is reported, but its value is the whole
\* input (htmlMatch.input taken for htmlMatch[0])
HtmlMatchInput(text) ==
    [found |-> HtmlMatchLazy(text).found, value |-> text]

\* text.match(/<!DOCTYPE html>[\s\S]*<\/html>/i): the leftmost match starts
\* at the first doctype that has a closing html tag after it, and the greedy
\* [\s\S]* carries it to the last closing html tag of the text
HtmlMatch(text) ==
    LET ds == {i \in 1..Len(text) : IsDoctype(text[i])}
    IN  IF ds = {} THEN NoMatch
        ELSE LET first == MinOf(ds)
                 es == {j \in (first + 1)..Len(text) : IsCloseHtml(text[j])}
             IN  IF es = {} THEN NoMatch
                 ELSE [found |-> TRUE,
                       value |-> SubSeq(text, first, MaxOf(es))]

RECURSIVE BlockMatches(_, _, _)
\* htmlCode.match(/<style[^>]*>([\s\S]*?)<\/style>/gi) (and the same for
\* script): the matches from position `from` on, left to right, each from an
\* opening tag to the first closing tag after it; <<>> stands for null
BlockMatches(htmlCode, kind, from) ==
    LET opens == {i \in from..Len(htmlCode) : IsOpenTag(kind, htmlCode[i])}
    IN  IF opens = {} THEN <<>>
        ELSE LET i == MinOf(opens)
                 closes == {j \in (i + 1)..Len(htmlCode) :
                               IsCloseTag(kind, htmlCode[j])}
             IN  IF closes = {} THEN <<>>
                 ELSE LET j == MinOf(closes)
                      IN  <<SubSeq(htmlCode, i, j)>>
                            \o BlockMatches(htmlCode, kind, j + 1)

\* match.replace(/<\/?style[^>]*>/gi, '')
StripTags(match, kind) ==
    LET Keep(t) == ~IsOpenTag(kind, t) /\ ~IsCloseTag(kind, t)
    IN  SelectSeq(match, Keep)

RECURSIVE Join(_, _)
\* Array.prototype.join
Join(parts, sep) ==
    IF parts = <<>> THEN <<>>
    ELSE IF Len(parts) = 1 THEN Head(parts)
    ELSE Head(parts) \o sep \o Join(Tail(parts), sep)

\* a faulty variant of ExtractCode: the matches are joined with their tags left in
ExtractCodeKeepTags(htmlCode, kind) ==
    Join(BlockMatches(htmlCode, kind, 1), <<"\n\n">>)

\* cssMatches.map(match => match.replace(...)).join('\n\n'), '' on no match
ExtractCode(htmlCode, kind) ==
    LET matches == BlockMatches(htmlCode, kind, 1)
    IN  Join([k \in 1..Len(matches) |-> StripTags(matches[k], kind)],
             <<"\n\n">>)

----------------------------------------------------------------------------
(* GeneratedWebsite values *)

CssPlaceholder == <<"/* CSS is embedded in the HTML file */">>
JsPlaceholder  == <<"/* JavaScript is embedded in the HTML file */">>

\* a faulty variant of OpenAI_parseGeneratedCode: without a match the html is left
\* empty instead of taking the full text
OpenAI_parseGeneratedCodeDropsText(text) ==
    LET htmlMatch == HtmlMatch(text)
        htmlCode  == htmlMatch.value
    IN  [html |-> htmlCode, css |-> CssPlaceholder, js |-> JsPlaceholder,
         preview |-> htmlCode]

\* OpenAIClient.parseGeneratedCode
OpenAI_parseGeneratedCode(text) ==
    LET htmlMatch == HtmlMatch(text)
    IN  IF htmlMatch.found
        THEN LET htmlCode == htmlMatch.value
                 cssCode  == ExtractCode(htmlCode, "style")
                 jsCode   == ExtractCode(htmlCode, "script")
             IN  [html    |-> htmlCode,
                  css     |-> IF cssCode = <<>> THEN CssPlaceholder ELSE cssCode,
                  js      |-> IF jsCode = <<>> THEN JsPlaceholder ELSE jsCode,
                  preview |-> htmlCode]
        ELSE [html |-> text, css |-> CssPlaceholder, js |-> JsPlaceholder,
              preview |-> text]

\* parseGeneratedCode of route.ts
Route_parseGeneratedCode(text) ==
    LET htmlMatch == HtmlMatch(text)
    IN  IF htmlMatch.found
        THEN LET htmlCode == htmlMatch.value
                 cssCode  == ExtractCode(htmlCode, "style")
                 jsCode   == ExtractCode(htmlCode, "script")
             IN  [html    |-> htmlCode,
                  css     |-> IF cssCode = <<>> THEN CssPlaceholder ELSE cssCode,
                  js      |-> IF jsCode = <<>> THEN JsPlaceholder ELSE jsCode,
                  preview |-> htmlCode]
        ELSE [html |-> text, css |-> CssPlaceholder, js |-> JsPlaceholder,
              preview |-> text]

\* a faulty variant of Gemini_parseGeneratedCode: the preview is the whole
\* text even when a document was extracted from it
Gemini_parseGeneratedCodeRawPreview(text) ==
    LET htmlMatch == HtmlMatch(text)
        html == IF htmlMatch.found THEN htmlMatch.value ELSE text
    IN  [html |-> html, css |-> <<>>, js |-> <<>>, preview |-> text]

\* GeminiClient.parseGeneratedCode
Gemini_parseGeneratedCode(text) ==
    LET htmlMatch == HtmlMatch(text)
        html == IF htmlMatch.found THEN htmlMatch.value ELSE text
    IN  [html |-> html, css |-> <<>>, js |-> <<>>, preview |-> html]

----------------------------------------------------------------------------
(* Fallback documents *)

GenerationFailedText ==
    "<p>The website generation failed due to OpenAI API configuration issues.</p>"

\* OpenAIClient.getMockWebsiteWithError
OpenAI_getMockWebsiteWithError(errorMessage) ==
    LET errorHtml ==
            <<"<!DOCTYPE html>",
              "<html lang=\"en\"><head><title>OpenAI API Setup Required</title>",
              "<style>",
              "body { font-family: 'Segoe UI' } .container { background: white }",
              "</style>",
              "</head><body><div class=\"container\">",
              "<h1>OpenAI API Configuration Required</h1>",
              GenerationFailedText,
              "<div class=\"error-details\"><strong>Error:</strong> ">>
            \o errorMessage
            \o <<"</div><h3>Setup Instructions:</h3>",
                 "<div class=\"env-var\">OPENAI_API_KEY=your_openai_api_key_here</div>",
                 "<p>Once configured, try generating your website again!</p>",
                 "</div></body>",
                 "</html>">>
    IN  [html    |-> errorHtml,
         css     |-> <<"/* Error page CSS is embedded in HTML */">>,
         js      |-> <<"/* No JavaScript needed for error page */">>,
         preview |-> errorHtml]

\* the values a rejected external call can be rejected with: an Error with
\* a message (and, for HTTP failures, a status and details), a thrown value
\* that is no Error, and null/undefined
ErrorMessages ==
    {<<"fetch failed">>, <<"Unexpected response ", "</html>", " from upstream">>}

ErrorValues ==
    {[type |-> "Error", message |-> m, status |-> 0, details |-> <<>>] :
        m \in ErrorMessages}
    \cup {[type |-> "Error", message |-> <<"Too Many Requests">>,
           status |-> 429, details |-> <<"[{\"reason\":\"RATE_LIMIT_EXCEEDED\"}]">>],
          [type |-> "object", message |-> <<>>, status |-> 503, details |-> <<>>],
          [type |-> "nullish", message |-> <<>>, status |-> 0, details |-> <<>>]}

NoError == [type |-> "none", message |-> <<>>, status |-> 0, details |-> <<>>]

\* new Error(message)
NewError(message) ==
    [type |-> "Error", message |-> message, status |-> 0, details |-> <<>>]

\* new Date().toISOString()
Clock == {"2025-01-01T00:00:00.000Z", "2025-01-01T00:00:01.000Z"}

\* reading a property of null or undefined throws a TypeError
PropertyReadThrows(error) == error.type = "nullish"

\* GeminiClient.getMockWebsiteWithError
Gemini_getMockWebsiteWithError(profile, error, apiKey, now) ==
    LET html ==
            <<"<!DOCTYPE html>", "<html lang=\"en\"><head><title>",
              profile.name, " - Portfolio (Debug Mode)</title>",
              "<style>", "body { font-family: Arial, sans-serif }", "</style>",
              "</head><body><div class=\"container\">",
              "<h1>Gemini API Debug Mode</h1>", "<h2>Portfolio for ",
              profile.name, "</h2>",
              "<h3>API Error Detected</h3>", "<p><strong>Error:</strong> ">>
            \o (IF error.type = "Error" THEN error.message
                ELSE <<"Unknown error">>)
            \o <<"</p>">>
            \o (IF error.status # 0
                THEN <<"<p><strong>Status:</strong> ", ToString(error.status), "</p>">>
                ELSE <<>>)
            \o (IF error.details # <<>>
                THEN <<"<p><strong>Details:</strong> ">> \o error.details \o <<"</p>">>
                ELSE <<>>)
            \o <<"<h3>How to Fix This:</h3>",
                 "The NEXT_PUBLIC_GEMINI_API_KEY environment variable should be set in Vercel",
                 "API key available: ", IF apiKey THEN "Yes" ELSE "No",
                 "Environment: Client", "Build time: ", now,
                 "<h3>Current Data Ready for Generation:</h3>",
                 "<p>Name: ", profile.name, "</p>",
                 "<p>Title: ", profile.title, "</p>",
                 "<p>Skills: ", ToString(Len(profile.skills)), " skills</p>",
                 "<p>Work Experience: ", ToString(Len(profile.workHistory)), " entries</p>",
                 "<p>Projects: ", ToString(Len(profile.projects)), " projects</p>",
                 "<p>Education: ", ToString(Len(profile.education)), " entries</p>">>
            \o (IF profile.referenceSite # ""
                THEN <<"<p>Reference Site: ", profile.referenceSite, "</p>">>
                ELSE <<>>)
            \o <<"</div></body>", "</html>">>
    IN  [html |-> html, css |-> <<>>, js |-> <<>>, preview |-> html]

KeyNotAccessibleText ==
    "<p>The Gemini API key is not accessible. This should not happen in production deployment.</p>"

\* GeminiClient.getMockWebsite
Gemini_getMockWebsite(profile) ==
    LET html ==
            <<"<!DOCTYPE html>", "<html lang=\"en\"><head><title>",
              profile.name, " - Portfolio (Preview)</title>",
              "<style>", "* { margin: 0 } body { color: #ffffff }", "</style>",
              "</head><body><div class=\"container\">",
              "<h1>AI Portfolio Generator</h1>", "<h2>Preview Mode</h2>",
              "<p>Your portfolio is ready to be generated for ",
              profile.name, "</p>",
              "<p><strong>API Configuration Issue:</strong></p>",
              KeyNotAccessibleText,
              "<li>Your professional title: ", profile.title, "</li>",
              "<li>", ToString(Len(profile.skills)), " technical skills</li>",
              "<li>", ToString(Len(profile.workHistory)), " work experience entries</li>",
              "<li>", ToString(Len(profile.projects)), " project showcases</li>",
              "<li>", ToString(Len(profile.education)), " education entries</li>">>
            \o (IF profile.referenceSite # ""
                THEN <<"<li>Design inspired by: ", profile.referenceSite, "</li>">>
                ELSE <<>>)
            \o <<"</div></body>", "</html>">>
    IN  [html |-> html, css |-> <<>>, js |-> <<>>, preview |-> html]

----------------------------------------------------------------------------
(* Inputs *)

JaneDoe ==
    [name |-> "Jane Doe", title |-> "Engineer", skills |-> <<"Go", "Rust">>,
     workHistory |-> <<>>, projects |-> <<>>, education |-> <<>>,
     referenceSite |-> ""]

\* a profile with every list filled in, a reference site, and a name that
\* reads as markup
FullProfile ==
    [name |-> "</html>", title |-> "Developer", skills |-> <<"TypeScript">>,
     workHistory |->
        <<[position |-> "Engineer", company |-> "Acme", startMonth |-> "01",
           startYear |-> "2020", endMonth |-> "", endYear |-> "",
           isPresent |-> TRUE, bullets |-> <<"Built things">>]>>,
     projects |->
        <<[title |-> "Site", description |-> "A site",
           stack |-> <<"React">>, url |-> "", github |-> ""]>>,
     education |->
        <<[school |-> "MIT", degree |-> "BSc", cgpa |-> "", startMonth |-> "09",
           startYear |-> "2015", endMonth |-> "06", endYear |-> "2019",
           isPresent |-> FALSE]>>,
     referenceSite |-> "https://example.com"]

Profiles == {JaneDoe, FullProfile}

NoProfile ==
    [name |-> "", title |-> "", skills |-> <<>>, workHistory |-> <<>>,
     projects |-> <<>>, education |-> <<>>, referenceSite |-> ""]

EnvNames ==
    {"OPENAI_API_KEY", "NEXT_PUBLIC_OPENAI_API_KEY",
     "GEMINI_API_KEY", "NEXT_PUBLIC_GEMINI_API_KEY"}

ResponseTexts == SeqsUpTo(ResponseAlphabet, MaxToks)

NoResponse == [kind |-> "none", error |-> NoError, text |-> <<>>]

Thrown(e)   == [kind |-> "throw", error |-> e, text |-> <<>>]
Answered(t) == [kind |-> "text", error |-> NoError, text |-> t]

\* what chat.completions.create settles with: a rejection, a completion
\* whose first choice has no content, or a completion with a text
OpenAIResponses ==
    {Thrown(e) : e \in ErrorValues}
    \cup {[kind |-> "no_content", error |-> NoError, text |-> <<>>]}
    \cup {Answered(t) : t \in ResponseTexts}

\* what model.generateContent settles with: a rejection, no response
\* object, a response without candidates, or a response with a text
GeminiResponses ==
    {Thrown(e) : e \in ErrorValues}
    \cup {[kind |-> "no_response", error |-> NoError, text |-> <<>>],
          [kind |-> "no_candidates", error |-> NoError, text |-> <<>>]}
    \cup {Answered(t) : t \in ResponseTexts}

NoArtifact == [html |-> <<>>, css |-> <<>>, js |-> <<>>, preview |-> <<>>]

Pending == [kind |-> "pending", artifact |-> NoArtifact, error |-> <<>>,
            status |-> 0]

\* the promise resolves with a GeneratedWebsite (for the route: the response
\* body is a GeneratedWebsite, status 200)
Resolved(a) == [kind |-> "artifact", artifact |-> a, error |-> <<>>,
                status |-> 200]

\* the promise rejects
Rejected == [kind |-> "rejected", artifact |-> NoArtifact, error |-> <<>>,
             status |-> 0]

\* NextResponse.json({ error }, { status: 500 })
ErrorJson(message) == [kind |-> "error_json", artifact |-> NoArtifact,
                       error |-> message, status |-> 500]

NotParsed == [called |-> FALSE, text |-> <<>>]
Parsed(t) == [called |-> TRUE, text |-> t]

\* null
Null == [null |-> TRUE]

\* the preview page before it is opened: useState(null), useState(null),
\* useState(true), useState(false), nothing awaited
PageNotLoaded ==
    /\ savedFormData = Null
    /\ location = "/preview"
    /\ mounted = FALSE
    /\ formData = Null
    /\ generatedWebsite = Null
    /\ isLoading = TRUE
    /\ isRegenerating = FALSE
    /\ generating = <<>>
    /\ downloading = 0
    /\ lastCall = Pending

\* const initialFormData of app/form/page.tsx
initialFormData ==
    [name |-> "", title |-> "", bio |-> "", workHistory |-> <<>>,
     projects |-> <<>>, skills |-> <<>>, education |-> "", media |-> <<>>,
     referenceSite |-> ""]

\* the form page before it is opened: useState(initialFormData),
\* useState(1), useState(false), no step shown, and nothing sent to a service yet
FormNotOpened ==
    /\ sentRequests = <<>>
    /\ formPageData = initialFormData
    /\ currentStep = 1
    /\ isGenerating = FALSE
    /\ projectsValues = <<>>
    /\ workHistoryValues = <<>>
    /\ educationValues = <<>>
    /\ skills = <<>>
    /\ currentSkill = ""
    /\ timers = <<>>
    /\ referenceSiteValue = ""

----------------------------------------------------------------------------
(* The length check on the generated content *)

MinContentLength == 100

\* a faulty variant of IsTooShort: a text of exactly the minimum length is refused
IsTooShortInclusive(r) ==
    r.kind # "text" \/ r.text = <<>> \/ StrLen(r.text) <= MinContentLength

\* a faulty variant of IsTooShort: only a missing content is refused
IsTooShortNullOnly(r) == r.kind # "text"

\* !generatedContent || generatedContent.length < 100
IsTooShort(r) ==
    r.kind # "text" \/ r.text = <<>> \/ StrLen(r.text) < MinContentLength

----------------------------------------------------------------------------
(* OpenAIClient *)

\* a faulty variant of OpenAI_KeyFound: the missing key goes unnoticed
OpenAI_KeyFoundAlways == TRUE

\* process.env.NEXT_PUBLIC_OPENAI_API_KEY || process.env.OPENAI_API_KEY
OpenAI_KeyFound ==
    "NEXT_PUBLIC_OPENAI_API_KEY" \in env \/ "OPENAI_API_KEY" \in env

\* error instanceof Error ? error.message : 'Unknown OpenAI API error'
OpenAI_errorMessage(error) ==
    IF error.type = "Error" THEN error.message
    ELSE <<"Unknown OpenAI API error">>

\* a faulty variant of OpenAI_generateWebsite: initialized is set before the
\* key is looked up, as GeminiClient does
OpenAI_generateWebsiteInitFirst(p) ==
    /\ UNCHANGED <<pageVars, prompt, formVars>>
    /\ pc = "idle"
    /\ client' = "openai"
    /\ userData' = p
    /\ LET throws == ~oaInitialized /\ ~OpenAI_KeyFound
           clientAfter == IF oaInitialized THEN oaClient ELSE OpenAI_KeyFound
       IN  /\ oaClient' = clientAfter
           /\ oaInitialized' = TRUE
           /\ IF throws
              THEN /\ pc' = "settled"
                   /\ requests' = 0
                   /\ outcome' = Resolved(OpenAI_getMockWebsiteWithError(
                                     <<"OpenAI API key not found">>))
              ELSE IF ~clientAfter
              THEN /\ pc' = "settled"
                   /\ requests' = 0
                   /\ outcome' = Resolved(OpenAI_getMockWebsiteWithError(
                                     <<"OpenAI client not initialized">>))
              ELSE /\ pc' = "awaiting"
                   /\ requests' = 1
                   /\ outcome' = Pending
    /\ response' = NoResponse
    /\ parserInput' = NotParsed
    /\ UNCHANGED <<env, genAI, gemApiKey, gemInitialized, routeOpenai>>

\* OpenAIClient.generateWebsite, up to the await of the external call:
\* initializeIfNeeded, the client check, and the request
OpenAI_generateWebsite(p) ==
    /\ UNCHANGED <<pageVars, prompt, formVars>>
    /\ pc = "idle"
    /\ client' = "openai"
    /\ userData' = p
    /\ LET throws == ~oaInitialized /\ ~OpenAI_KeyFound
           clientAfter == IF oaInitialized THEN oaClient ELSE OpenAI_KeyFound
       IN  /\ oaClient' = clientAfter
           /\ oaInitialized' = (oaInitialized \/ OpenAI_KeyFound)
           /\ IF throws
              THEN /\ pc' = "settled"
                   /\ requests' = 0
                   /\ outcome' = Resolved(OpenAI_getMockWebsiteWithError(
                                     <<"OpenAI API key not found">>))
              ELSE IF ~clientAfter
              THEN /\ pc' = "settled"
                   /\ requests' = 0
                   /\ outcome' = Resolved(OpenAI_getMockWebsiteWithError(
                                     <<"OpenAI client not initialized">>))
              ELSE /\ pc' = "awaiting"
                   /\ requests' = 1
                   /\ outcome' = Pending
    /\ response' = NoResponse
    /\ parserInput' = NotParsed
    /\ UNCHANGED <<env, genAI, gemApiKey, gemInitialized, routeOpenai>>

\* a faulty variant of OpenAI_resume: a rejected call is sent once more
OpenAI_resumeRetries(r) ==
    /\ UNCHANGED <<pageVars, prompt, formVars>>
    /\ pc = "awaiting"
    /\ client = "openai"
    /\ response' = r
    /\ IF r.kind = "throw" /\ requests < 2
       THEN /\ requests' = requests + 1
            /\ UNCHANGED <<pc, outcome, parserInput>>
       ELSE /\ pc' = "settled"
            /\ requests' = requests
            /\ outcome' = Resolved(OpenAI_getMockWebsiteWithError(
                              OpenAI_errorMessage(r.error)))
            /\ UNCHANGED parserInput
    /\ UNCHANGED <<env, oaClient, oaInitialized, genAI, gemApiKey,
                   gemInitialized, routeOpenai, client, userData>>

\* OpenAIClient.generateWebsite, from the settling of the external call on
OpenAI_resume(r) ==
    /\ UNCHANGED <<pageVars, prompt, formVars>>
    /\ pc = "awaiting"
    /\ client = "openai"
    /\ response' = r
    /\ pc' = "settled"
    /\ IF r.kind = "throw"
       THEN /\ outcome' = Resolved(OpenAI_getMockWebsiteWithError(
                              OpenAI_errorMessage(r.error)))
            /\ UNCHANGED parserInput
       ELSE IF IsTooShort(r)
       THEN /\ outcome' = Resolved(OpenAI_getMockWebsiteWithError(
                              <<"Response too short or empty from OpenAI API">>))
            /\ UNCHANGED parserInput
       ELSE /\ parserInput' = Parsed(r.text)
            /\ outcome' = Resolved(OpenAI_parseGeneratedCode(r.text))
    /\ UNCHANGED <<env, oaClient, oaInitialized, genAI, gemApiKey,
                   gemInitialized, routeOpenai, client, userData, requests>>

----------------------------------------------------------------------------
(* GeminiClient *)

\* process.env.NEXT_PUBLIC_GEMINI_API_KEY || process.env.GEMINI_API_KEY
Gemini_KeyFound ==
    "NEXT_PUBLIC_GEMINI_API_KEY" \in env \/ "GEMINI_API_KEY" \in env

\* a faulty variant of Gemini_generateWebsite: initialized is set only when
\* a key was found, so a later call looks the key up again
Gemini_generateWebsiteInitOnKey(p) ==
    /\ UNCHANGED <<pageVars, prompt, formVars>>
    /\ pc = "idle"
    /\ client' = "gemini"
    /\ userData' = p
    /\ LET keyAfter == IF gemInitialized THEN gemApiKey ELSE Gemini_KeyFound
           genAIAfter == IF gemInitialized THEN genAI ELSE Gemini_KeyFound
       IN  /\ gemApiKey' = keyAfter
           /\ genAI' = genAIAfter
           /\ gemInitialized' = (gemInitialized \/ Gemini_KeyFound)
           /\ IF ~genAIAfter \/ ~keyAfter
              THEN /\ pc' = "settled"
                   /\ requests' = 0
                   /\ outcome' = Resolved(Gemini_getMockWebsite(p))
              ELSE /\ pc' = "awaiting"
                   /\ requests' = 1
                   /\ outcome' = Pending
    /\ response' = NoResponse
    /\ parserInput' = NotParsed
    /\ UNCHANGED <<env, oaClient, oaInitialized, routeOpenai>>

\* GeminiClient.generateWebsite, up to the await of the external call:
\* initializeIfNeeded, the check of genAI and apiKey, and the request
Gemini_generateWebsite(p) ==
    /\ UNCHANGED <<pageVars, prompt, formVars>>
    /\ pc = "idle"
    /\ client' = "gemini"
    /\ userData' = p
    /\ LET keyAfter == IF gemInitialized THEN gemApiKey ELSE Gemini_KeyFound
           genAIAfter == IF gemInitialized THEN genAI ELSE Gemini_KeyFound
       IN  /\ gemApiKey' = keyAfter
           /\ genAI' = genAIAfter
           /\ gemInitialized' = TRUE
           /\ IF ~genAIAfter \/ ~keyAfter
              THEN /\ pc' = "settled"
                   /\ requests' = 0
                   /\ outcome' = Resolved(Gemini_getMockWebsite(p))
              ELSE /\ pc' = "awaiting"
                   /\ requests' = 1
                   /\ outcome' = Pending
    /\ response' = NoResponse
    /\ parserInput' = NotParsed
    /\ UNCHANGED <<env, oaClient, oaInitialized, routeOpenai>>

\* the value the try block of GeminiClient.generateWebsite throws for a
\* settled call, NoError when it throws nothing
Gemini_thrown(r) ==
    CASE r.kind = "throw" -> r.error
      [] r.kind = "no_response" ->
            NewError(<<"No response received from Gemini API">>)
      [] r.kind = "no_candidates" ->
            NewError(<<"No candidates in Gemini response - possible content policy violation">>)
      [] r.kind = "text" /\ IsTooShort(r) ->
            NewError(<<"Response too short or empty from Gemini API. Length: ",
                       ToString(StrLen(r.text)), ", Content: \"">>
                     \o r.text \o <<"\"">>)
      [] OTHER -> NoError

\* what GeminiClient.generateWebsite settles with once the external call
\* has settled with r: the parsed text, the page of the catch block, or,
\* when the catch block itself throws, a rejection
Gemini_outcome(profile, r, apiKey, now) ==
    LET error == Gemini_thrown(r)
    IN  IF error = NoError THEN Resolved(Gemini_parseGeneratedCode(r.text))
        ELSE IF PropertyReadThrows(error) THEN Rejected
        ELSE Resolved(Gemini_getMockWebsiteWithError(profile, error, apiKey, now))

\* GeminiClient.generateWebsite, from the settling of the external call on;
\* the catch block reads error.status before it builds the page
Gemini_resume(r, now) ==
    /\ UNCHANGED <<pageVars, prompt, formVars>>
    /\ pc = "awaiting"
    /\ client = "gemini"
    /\ response' = r
    /\ pc' = "settled"
    /\ parserInput' = IF Gemini_thrown(r) = NoError THEN Parsed(r.text)
                      ELSE parserInput
    /\ outcome' = Gemini_outcome(userData, r, gemApiKey, now)
    /\ UNCHANGED <<env, oaClient, oaInitialized, genAI, gemApiKey,
                   gemInitialized, routeOpenai, client, userData, requests>>

----------------------------------------------------------------------------
(* The generate-website route *)

\* POST of route.ts, up to the await of the external call: the key check,
\* getOpenAIClient, and the request
Route_POST(p) ==
    /\ UNCHANGED <<pageVars, prompt, formVars>>
    /\ pc = "idle"
    /\ client' = "route"
    /\ userData' = p
    /\ IF "OPENAI_API_KEY" \notin env
       THEN /\ pc' = "settled"
            /\ requests' = 0
            /\ outcome' = ErrorJson(<<"OpenAI API key not found. Please set OPENAI_API_KEY in your environment variables.">>)
            /\ UNCHANGED routeOpenai
       ELSE /\ routeOpenai' = TRUE
            /\ pc' = "awaiting"
            /\ requests' = 1
            /\ outcome' = Pending
    /\ response' = NoResponse
    /\ parserInput' = NotParsed
    /\ UNCHANGED <<env, oaClient, oaInitialized, genAI, gemApiKey,
                   gemInitialized>>

\* POST of route.ts, from the settling of the external call on
Route_resume(r) ==
    /\ UNCHANGED <<pageVars, prompt, formVars>>
    /\ pc = "awaiting"
    /\ client = "route"
    /\ response' = r
    /\ pc' = "settled"
    /\ IF r.kind = "throw"
       THEN /\ outcome' = ErrorJson(OpenAI_errorMessage(r.error))
            /\ UNCHANGED parserInput
       ELSE IF IsTooShort(r)
       THEN /\ outcome' = ErrorJson(<<"Response too short or empty from OpenAI API">>)
            /\ UNCHANGED parserInput
       ELSE /\ parserInput' = Parsed(r.text)
            /\ outcome' = Resolved(Route_parseGeneratedCode(r.text))
    /\ UNCHANGED <<env, oaClient, oaInitialized, genAI, gemApiKey,
                   gemInitialized, routeOpenai, client, userData, requests>>

----------------------------------------------------------------------------
(* The environment and the caller *)

\* an API key is added to the configuration of the deployment
ConfigureKey(k) ==
    /\ UNCHANGED <<pageVars, prompt, formVars>>
    /\ k \notin env
    /\ env' = env \cup {k}
    /\ UNCHANGED <<oaClient, oaInitialized, genAI, gemApiKey, gemInitialized,
                   routeOpenai, pc, client, userData, requests, response,
                   parserInput, outcome>>

\* the caller has taken the outcome; the next invocation can start
Return ==
    /\ UNCHANGED <<pageVars, prompt, formVars>>
    /\ pc = "settled"
    /\ pc' = "idle"
    /\ client' = "none"
    /\ userData' = NoProfile
    /\ requests' = 0
    /\ response' = NoResponse
    /\ parserInput' = NotParsed
    /\ outcome' = Pending
    /\ UNCHANGED <<env, oaClient, oaInitialized, genAI, gemApiKey,
                   gemInitialized, routeOpenai>>

Init ==
    /\ PageNotLoaded
    /\ prompt = <<>>
    /\ FormNotOpened
    /\ env \in SUBSET EnvNames
    /\ oaClient = FALSE
    /\ oaInitialized = FALSE
    /\ genAI = FALSE
    /\ gemApiKey = FALSE
    /\ gemInitialized = FALSE
    /\ routeOpenai = FALSE
    /\ pc = "idle"
    /\ client = "none"
    /\ userData = NoProfile
    /\ requests = 0
    /\ response = NoResponse
    /\ parserInput = NotParsed
    /\ outcome = Pending

Next ==
    \/ \E p \in Profiles : OpenAI_generateWebsite(p)
    \/ \E r \in OpenAIResponses : OpenAI_resume(r)
    \/ \E p \in Profiles : Gemini_generateWebsite(p)
    \/ \E r \in GeminiResponses, now \in Clock : Gemini_resume(r, now)
    \/ \E p \in Profiles : Route_POST(p)
    \/ \E r \in OpenAIResponses : Route_resume(r)
    \/ \E k \in EnvNames : ConfigureKey(k)
    \/ Return

Spec == Init /\ [][Next]_vars

----------------------------------------------------------------------------
(* parseGeneratedCode on its own *)

Fill == {<<>>, <<"a">>}

StyleBlocks ==
    {<<o>> \o f \o <<"</style>">> :
        o \in {"<style>", "<STYLE media=\"all\">"}, f \in Fill}

ScriptBlocks ==
    {<<o>> \o f \o <<"</script>">> :
        o \in {"<script>", "<script defer>"}, f \in Fill}

Blocks == {<<>>} \cup StyleBlocks \cup ScriptBlocks

\* texts that hold a document with up to two style or script blocks
Documents ==
    {pre \o <<d>> \o b1 \o f \o b2 \o <<e>> \o post :
        pre \in Fill, d \in {"<!DOCTYPE html>", "<!doctype HTML>"},
        b1 \in Blocks, f \in Fill, b2 \in Blocks,
        e \in {"</html>", "</HTML>"}, post \in Fill}

\* the error messages OpenAIClient.generateWebsite builds its page from
OpenAIErrorMessages ==
    {OpenAI_errorMessage(e) : e \in ErrorValues}
    \cup {<<"OpenAI API key not found">>, <<"OpenAI client not initialized">>,
          <<"Response too short or empty from OpenAI API">>}

\* the error values GeminiClient.generateWebsite builds its page from
GeminiErrorValues ==
    {Gemini_thrown(r) : r \in GeminiResponses}
        \ {NoError, [type |-> "nullish", message |-> <<>>, status |-> 0,
                     details |-> <<>>]}

OpenAIFallbackDocuments ==
    {OpenAI_getMockWebsiteWithError(m).html : m \in OpenAIErrorMessages}

GeminiFallbackDocuments ==
    {Gemini_getMockWebsiteWithError(p, e, k, now).html :
        p \in Profiles, e \in GeminiErrorValues, k \in BOOLEAN, now \in Clock}
    \cup {Gemini_getMockWebsite(p).html : p \in Profiles}

ParseTexts ==
    SeqsUpTo(ParseAlphabet, MaxParseToks) \cup Documents
        \cup OpenAIFallbackDocuments \cup GeminiFallbackDocuments

ParseInit ==
    /\ PageNotLoaded
    /\ prompt = <<>>
    /\ FormNotOpened
    /\ env = {}
    /\ oaClient = FALSE
    /\ oaInitialized = FALSE
    /\ genAI = FALSE
    /\ gemApiKey = FALSE
    /\ gemInitialized = FALSE
    /\ routeOpenai = FALSE
    /\ pc = "parse"
    /\ client \in {"openai", "gemini", "route"}
    /\ userData = NoProfile
    /\ requests = 0
    /\ response \in {Answered(t) : t \in ParseTexts}
    /\ parserInput = NotParsed
    /\ outcome = Pending

\* parseGeneratedCode(text) of the chosen implementation
ParseStep ==
    /\ UNCHANGED <<pageVars, prompt, formVars>>
    /\ pc = "parse"
    /\ pc' = "parsed"
    /\ parserInput' = Parsed(response.text)
    /\ outcome' = Resolved(
            CASE client = "openai" -> OpenAI_parseGeneratedCode(response.text)
              [] client = "gemini" -> Gemini_parseGeneratedCode(response.text)
              [] OTHER -> Route_parseGeneratedCode(response.text))
    /\ UNCHANGED <<env, oaClient, oaInitialized, genAI, gemApiKey,
                   gemInitialized, routeOpenai, client, userData, requests,
                   response>>

ParseNext == ParseStep

SpecParse == ParseInit /\ [][ParseNext]_vars

----------------------------------------------------------------------------
(* PreviewPage *)

\* most generateWebsite calls the page awaits at a time in SpecPage
MaxGenerating == 2

\* most downloadWebsiteAsZip calls the page awaits at a time in SpecPage
MaxDownloading == 2

\* the page shows the loading view: if (isLoading) return ...
LoadingView == location = "/preview" /\ isLoading

\* the page shows "Something went wrong": if (!generatedWebsite) return ...
NoWebsiteView ==
    location = "/preview" /\ ~isLoading /\ generatedWebsite = Null

\* the page shows the preview, the code and the action buttons
MainView == location = "/preview" /\ ~isLoading /\ generatedWebsite # Null

\* the Regenerate button of the navigation bar and the Try Again button of
\* the Regenerate card
RegenerateControls == {"nav", "card"}

\* the Download button of the navigation bar and the Download ZIP button of
\* the Download card
DownloadControls == {"nav", "card"}

\* a faulty variant of Regenerate_disabled: only the button of the navigation
\* bar is disabled
Regenerate_disabledNavOnly(control) == control = "nav" /\ isRegenerating

\* disabled={isRegenerating}, on both Regenerate controls
Regenerate_disabled(control) == isRegenerating

\* the Download buttons have no disabled attribute
Download_disabled(control) == FALSE

\* geminiClient.generateWebsite(p), called by the page, up to its first
\* await: initializeIfNeeded, and the request if the client holds a key;
\* the page then awaits the call
Page_callGenerateWebsite(trigger, p) ==
    LET keyAfter == IF gemInitialized THEN gemApiKey ELSE Gemini_KeyFound
        genAIAfter == IF gemInitialized THEN genAI ELSE Gemini_KeyFound
    IN  /\ gemApiKey' = keyAfter
        /\ genAI' = genAIAfter
        /\ gemInitialized' = TRUE
        /\ generating' = Append(generating,
                                [trigger |-> trigger, userData |-> p,
                                 sent |-> genAIAfter /\ keyAfter])

\* the generateWebsite calls the page awaits without position i
Page_settle(i) ==
    SubSeq(generating, 1, i - 1) \o SubSeq(generating, i + 1, Len(generating))

\* a faulty variant of Page_useEffect: without saved form data the page
\* generates a website for the sample profile instead of going back to the form
Page_useEffectSampleProfile ==
    /\ location = "/preview"
    /\ ~mounted
    /\ mounted' = TRUE
    /\ IF savedFormData # Null
       THEN /\ formData' = savedFormData
            /\ isLoading' = TRUE
            /\ Page_callGenerateWebsite("initial", savedFormData)
            /\ UNCHANGED location
       ELSE /\ isLoading' = TRUE
            /\ Page_callGenerateWebsite("initial", JaneDoe)
            /\ UNCHANGED <<formData, location>>
    /\ UNCHANGED <<env, oaClient, oaInitialized, routeOpenai, invocationVars, prompt, formVars,
                   savedFormData, generatedWebsite, isRegenerating,
                   downloading, lastCall>>

\* the effect of PreviewPage: the saved form data is loaded and the first
\* generation starts, or the browser is sent back to the form
Page_useEffect ==
    /\ location = "/preview"
    /\ ~mounted
    /\ mounted' = TRUE
    /\ IF savedFormData # Null
       THEN /\ formData' = savedFormData
            /\ isLoading' = TRUE
            /\ Page_callGenerateWebsite("initial", savedFormData)
            /\ UNCHANGED location
       ELSE /\ location' = "/form"
            /\ UNCHANGED <<formData, isLoading, generating, genAI, gemApiKey,
                           gemInitialized>>
    /\ UNCHANGED <<env, oaClient, oaInitialized, routeOpenai, invocationVars, prompt, formVars,
                   savedFormData, generatedWebsite, isRegenerating,
                   downloading, lastCall>>

\* a faulty variant of Page_generateWebsite_settled: setIsLoading(false) is the last
\* statement of the try block instead of a finally block
Page_generateWebsite_settledNoFinally(i, result) ==
    /\ location = "/preview"
    /\ i \in 1..Len(generating)
    /\ generating[i].trigger = "initial"
    /\ generating' = Page_settle(i)
    /\ lastCall' = result
    /\ IF result.kind = "artifact"
       THEN generatedWebsite' = result.artifact /\ isLoading' = FALSE
       ELSE UNCHANGED <<generatedWebsite, isLoading>>
    /\ UNCHANGED <<env, oaClient, oaInitialized, genAI, gemApiKey,
                   gemInitialized, routeOpenai, invocationVars, prompt, formVars, savedFormData,
                   location, mounted, formData, isRegenerating, downloading>>

\* generateWebsite of PreviewPage, from the settling of the awaited call on:
\* setGeneratedWebsite(website) unless the call rejected, and in any case
\* setIsLoading(false)
Page_generateWebsite_settled(i, result) ==
    /\ location = "/preview"
    /\ i \in 1..Len(generating)
    /\ generating[i].trigger = "initial"
    /\ generating' = Page_settle(i)
    /\ lastCall' = result
    /\ generatedWebsite' = IF result.kind = "artifact" THEN result.artifact
                           ELSE generatedWebsite
    /\ isLoading' = FALSE
    /\ UNCHANGED <<env, oaClient, oaInitialized, genAI, gemApiKey,
                   gemInitialized, routeOpenai, invocationVars, prompt, formVars, savedFormData,
                   location, mounted, formData, isRegenerating, downloading>>

\* handleRegenerate of PreviewPage, up to its await, started by a click on
\* a Regenerate control
Page_handleRegenerate(control) ==
    /\ MainView
    /\ ~Regenerate_disabled(control)
    /\ Len(generating) < MaxGenerating
    /\ formData # Null
    /\ isRegenerating' = TRUE
    /\ Page_callGenerateWebsite("regenerate", formData)
    /\ UNCHANGED <<env, oaClient, oaInitialized, routeOpenai, invocationVars, prompt, formVars,
                   savedFormData, location, mounted, formData,
                   generatedWebsite, isLoading, downloading, lastCall>>

\* handleRegenerate of PreviewPage, from the settling of the awaited call
\* on: setGeneratedWebsite(website) unless the call rejected, and in any
\* case setIsRegenerating(false)
Page_handleRegenerate_settled(i, result) ==
    /\ location = "/preview"
    /\ i \in 1..Len(generating)
    /\ generating[i].trigger = "regenerate"
    /\ generating' = Page_settle(i)
    /\ lastCall' = result
    /\ generatedWebsite' = IF result.kind = "artifact" THEN result.artifact
                           ELSE generatedWebsite
    /\ isRegenerating' = FALSE
    /\ UNCHANGED <<env, oaClient, oaInitialized, genAI, gemApiKey,
                   gemInitialized, routeOpenai, invocationVars, prompt, formVars, savedFormData,
                   location, mounted, formData, isLoading, downloading>>

\* handleDownload of PreviewPage, up to its await, started by a click on a
\* Download control
Page_handleDownload(control) ==
    /\ MainView
    /\ ~Download_disabled(control)
    /\ downloading < MaxDownloading
    /\ generatedWebsite # Null
    /\ formData # Null
    /\ downloading' = downloading + 1
    /\ UNCHANGED <<env, oaClient, oaInitialized, genAI, gemApiKey,
                   gemInitialized, routeOpenai, invocationVars, prompt, formVars, savedFormData,
                   location, mounted, formData, generatedWebsite, isLoading,
                   isRegenerating, generating, lastCall>>

\* handleDownload of PreviewPage, from the settling of downloadWebsiteAsZip
\* on: a rejection is logged, nothing else changes
Page_handleDownload_settled ==
    /\ location = "/preview"
    /\ downloading > 0
    /\ downloading' = downloading - 1
    /\ UNCHANGED <<env, oaClient, oaInitialized, genAI, gemApiKey,
                   gemInitialized, routeOpenai, invocationVars, prompt, formVars, savedFormData,
                   location, mounted, formData, generatedWebsite, isLoading,
                   isRegenerating, generating, lastCall>>

\* what model.generateContent settles with on the preview page: each kind of
\* rejection, no response, no candidates, an empty text, a short text, a
\* document, and a long text that holds no document
PageResponses ==
    {Thrown(e) : e \in ErrorValues}
    \cup {[kind |-> "no_response", error |-> NoError, text |-> <<>>],
          [kind |-> "no_candidates", error |-> NoError, text |-> <<>>]}
    \cup {Answered(t) : t \in {<<>>, <<"a">>,
                               <<"<!DOCTYPE html>", "lorem", "</html>">>,
                               <<"lorem", "lorem">>}}

\* what the call the page awaits at position i can settle with
Page_results(i) ==
    IF generating[i].sent
    THEN {Gemini_outcome(generating[i].userData, r, gemApiKey, now) :
             r \in PageResponses, now \in Clock}
    ELSE {Resolved(Gemini_getMockWebsite(generating[i].userData))}

\* the page is opened with or without saved form data
PageInit ==
    /\ env \in SUBSET {"GEMINI_API_KEY", "NEXT_PUBLIC_GEMINI_API_KEY"}
    /\ oaClient = FALSE
    /\ oaInitialized = FALSE
    /\ genAI = FALSE
    /\ gemApiKey = FALSE
    /\ gemInitialized = FALSE
    /\ routeOpenai = FALSE
    /\ pc = "idle"
    /\ client = "none"
    /\ userData = NoProfile
    /\ requests = 0
    /\ response = NoResponse
    /\ parserInput = NotParsed
    /\ outcome = Pending
    /\ savedFormData \in Profiles \cup {Null}
    /\ location = "/preview"
    /\ mounted = FALSE
    /\ formData = Null
    /\ generatedWebsite = Null
    /\ isLoading = TRUE
    /\ isRegenerating = FALSE
    /\ generating = <<>>
    /\ downloading = 0
    /\ lastCall = Pending
    /\ prompt = <<>>
    /\ FormNotOpened

\* the settling of a generateWebsite call the page awaits
Page_settled ==
    \E i \in 1..Len(generating) : \E result \in Page_results(i) :
        \/ Page_generateWebsite_settled(i, result)
        \/ Page_handleRegenerate_settled(i, result)

PageNext ==
    \/ Page_useEffect
    \/ Page_settled
    \/ \E control \in RegenerateControls : Page_handleRegenerate(control)
    \/ \E control \in DownloadControls : Page_handleDownload(control)
    \/ Page_handleDownload_settled

SpecPage == PageInit /\ [][PageNext]_vars

\* the awaited calls settle: the external service answers or fails in the end
SpecPageFair == SpecPage /\ WF_vars(Page_settled)

----------------------------------------------------------------------------
(* buildPrompt *)

\* undefined: the value of a property an object does not have
Undefined == "(undefined)"

\* o.f
Prop(o, f) == IF f \in DOMAIN o THEN o[f] ELSE Undefined

\* `${v}` for a string or undefined
TemplateString(v) == IF v = Undefined THEN "undefined" ELSE v

\* v ? ... : ... for a string or undefined
Truthy(v) == v # Undefined /\ v # ""

\* o.isPresent ? ... : ... for a boolean or undefined
IsPresent(o) == IF "isPresent" \in DOMAIN o THEN o.isPresent ELSE FALSE

\* strings.join(sep)
JoinStrings(strings, sep) ==
    Join([k \in 1..Len(strings) |-> <<strings[k]>>], <<sep>>)

\* const endDate = o.isPresent ? 'Present' : `${o.endMonth}/${o.endYear}`
EndDate(o) ==
    IF IsPresent(o) THEN <<"Present">>
    ELSE <<TemplateString(Prop(o, "endMonth")), "/",
           TemplateString(Prop(o, "endYear"))>>

\* (${o.startMonth}/${o.startYear} - ${endDate})
Dates(o) ==
    <<"(", TemplateString(Prop(o, "startMonth")), "/",
      TemplateString(Prop(o, "startYear")), " - ">> \o EndDate(o) \o <<")">>

\* the line of one project, the same in the three builders
ProjectLine(proj) ==
    <<"- ", proj.title, ": ", proj.description, " [">>
    \o JoinStrings(proj.stack, ", ") \o <<"]">>
    \o (IF Truthy(Prop(proj, "url"))
        THEN <<" - Live: ", proj.url>> ELSE <<>>)
    \o (IF Truthy(Prop(proj, "github"))
        THEN <<" - GitHub: ", proj.github>> ELSE <<>>)

\* const projectsText = ..., the same in the three builders
ProjectsText(projects) ==
    IF Len(projects) > 0
    THEN Join([k \in 1..Len(projects) |-> ProjectLine(projects[k])], <<"\n">>)
    ELSE <<"No projects provided yet.">>

\* the line of one education entry in OpenAIClient.buildPrompt and route.ts
OpenAI_educationLine(edu) ==
    <<"- ", edu.degree, " from ", edu.school, " ">> \o Dates(edu)
    \o (IF Truthy(Prop(edu, "cgpa"))
        THEN <<" | CGPA: ", edu.cgpa>> ELSE <<>>)

\* const educationText = ... of OpenAIClient.buildPrompt and route.ts
OpenAI_educationText(education) ==
    IF Len(education) > 0
    THEN Join([k \in 1..Len(education) |-> OpenAI_educationLine(education[k])],
              <<"\n">>)
    ELSE <<"No education provided yet.">>

\* the line of one work-history entry in OpenAIClient.buildPrompt and route.ts
OpenAI_workLine(w) ==
    <<w.position, " at ", w.company, " ">> \o Dates(w) \o <<" | ">>
    \o JoinStrings(w.bullets, "; ")

\* OpenAIClient.buildPrompt
OpenAI_buildPrompt(profile) ==
    <<"Create a modern, professional portfolio website for ", profile.name,
      ".\n\n">>
    \o (IF Truthy(Prop(profile, "referenceSite"))
        THEN <<"Design Inspiration: Study ", profile.referenceSite,
               " and create a similar aesthetic/layout style adapted for a portfolio.">>
        ELSE <<"Use a clean, modern design with professional styling.">>)
    \o <<"\n\nUSER DATA:\nName: ", profile.name, "\nTitle: ", profile.title,
         "\nSkills: ">>
    \o JoinStrings(profile.skills, ", ")
    \o <<"\n\nExperience:\n">>
    \o Join([k \in 1..Len(profile.workHistory) |->
                OpenAI_workLine(profile.workHistory[k])], <<"\n">>)
    \o <<"\n\nProjects:\n">>
    \o ProjectsText(profile.projects)
    \o <<"\n\nEducation:\n">>
    \o OpenAI_educationText(profile.education)
    \o <<"\n\nREQUIREMENTS:\n- Single HTML file with embedded CSS/JS",
         "Return ONLY the complete HTML code from <!DOCTYPE html> to </html>.">>

\* buildPrompt of route.ts, the same text as OpenAIClient.buildPrompt
Route_buildPrompt(profile) ==
    <<"Create a modern, professional portfolio website for ", profile.name,
      ".\n\n">>
    \o (IF Truthy(Prop(profile, "referenceSite"))
        THEN <<"Design Inspiration: Study ", profile.referenceSite,
               " and create a similar aesthetic/layout style adapted for a portfolio.">>
        ELSE <<"Use a clean, modern design with professional styling.">>)
    \o <<"\n\nUSER DATA:\nName: ", profile.name, "\nTitle: ", profile.title,
         "\nSkills: ">>
    \o JoinStrings(profile.skills, ", ")
    \o <<"\n\nExperience:\n">>
    \o Join([k \in 1..Len(profile.workHistory) |->
                OpenAI_workLine(profile.workHistory[k])], <<"\n">>)
    \o <<"\n\nProjects:\n">>
    \o ProjectsText(profile.projects)
    \o <<"\n\nEducation:\n">>
    \o OpenAI_educationText(profile.education)
    \o <<"\n\nREQUIREMENTS:\n- Single HTML file with embedded CSS/JS",
         "Return ONLY the complete HTML code from <!DOCTYPE html> to </html>.">>

\* the line of one education entry in GeminiClient.buildPrompt
Gemini_educationLine(edu) ==
    <<"- ", edu.degree, " from ", edu.school, " ">> \o Dates(edu)
    \o <<" - CGPA: ", TemplateString(Prop(edu, "cgpa"))>>

\* the line of one work-history entry in GeminiClient.buildPrompt
Gemini_workLine(w) ==
    <<"- ", w.position, " at ", w.company, " ">> \o Dates(w)
    \o <<"\n  Key Achievements: ">> \o JoinStrings(w.bullets, "; ")

\* GeminiClient.buildPrompt
Gemini_buildPrompt(profile) ==
    <<"\nYou are an expert web designer and developer.",
      "\n\nCRITICAL DESIGN MISSION:\n">>
    \o (IF Truthy(Prop(profile, "referenceSite"))
        THEN <<"\nFIRST: Study and analyze this reference website: ",
               profile.referenceSite,
               "\n\nTHEN: Create an INSPIRED VARIATION that captures the essence and quality of this design while making it completely personalized for ",
               profile.name, ".\n">>
        ELSE <<"\nCreate a cutting-edge, innovative portfolio design that breaks away from typical templates.\n">>)
    \o <<"\n\nUSER INFORMATION:\nName: ", profile.name,
         "\nProfessional Title: ", profile.title, "\nSkills: ">>
    \o JoinStrings(profile.skills, ", ")
    \o <<"\n\nWork Experience:\n">>
    \o Join([k \in 1..Len(profile.workHistory) |->
                Gemini_workLine(profile.workHistory[k])], <<"\n">>)
    \o <<"\n\nProjects Portfolio:\n">>
    \o ProjectsText(profile.projects)
    \o <<"\n\nEducational Background:\n">>
    \o Join([k \in 1..Len(profile.education) |->
                Gemini_educationLine(profile.education[k])], <<"\n">>)
    \o <<"\n\nDESIGN EXECUTION:", "- **Hero Section**: Memorable first impression with ",
         profile.name, "'s name and ", profile.title,
         "Provide ONLY the complete HTML code starting with <!DOCTYPE html> and ending with </html>.",
         "Create something extraordinary that ", profile.name,
         " would be proud to showcase to potential employers or clients.\n">>

\* the optional string fields of the form: left out, empty, or filled in
Optional(value) == {Undefined, "", value}

\* the record without those of its optional fields whose value is undefined
Defined(o, optional) ==
    [f \in {g \in DOMAIN o : g \notin optional \/ o[g] # Undefined} |-> o[f]]

\* work-history entries: as workExperienceSchema describes them, as the
\* work-history step with start and end dates fills them in, and with both
\* the duration and the dates
WorkEntries ==
    {[position |-> "Engineer", company |-> "Acme", duration |-> "2020-2024",
      bullets |-> <<"Built things">>],
     [position |-> "Engineer", company |-> "Acme", duration |-> "2020-2024",
      startMonth |-> "01", startYear |-> "2020", endMonth |-> "12",
      endYear |-> "2024", isPresent |-> FALSE, bullets |-> <<"Built things">>]}
    \cup {[position |-> "Engineer", company |-> "Acme", startMonth |-> "01",
           startYear |-> "2020", endMonth |-> e[1], endYear |-> e[2],
           isPresent |-> present, bullets |-> <<"Built things", "Led a team">>] :
             e \in {<<"", "">>, <<"12", "2024">>}, present \in BOOLEAN}

ProjectEntries ==
    {Defined([title |-> "Site", description |-> "A personal site",
              stack |-> <<"React", "Node">>, url |-> u, github |-> g],
             {"url", "github"}) :
        u \in Optional("https://site.example"),
        g \in Optional("https://github.com/jane/site")}

EducationEntries ==
    {Defined([school |-> "MIT", degree |-> "BSc", cgpa |-> "3.9",
              startMonth |-> "09", startYear |-> "2015", endMonth |-> e[1],
              endYear |-> e[2], isPresent |-> present],
             {"endMonth", "endYear"}) :
        e \in {<<Undefined, Undefined>>, <<"", "">>, <<"06", "2019">>},
        present \in BOOLEAN}

\* no entry or one entry
UpToOne(entries) == {<<>>} \cup {<<e>> : e \in entries}

\* the profiles buildPrompt is applied to
PromptProfiles ==
    {Defined([name |-> n, title |-> "Engineer", skills |-> sk,
              workHistory |-> wh, projects |-> pr, education |-> ed,
              referenceSite |-> ref], {"referenceSite"}) :
        n \in {"Jane Doe", ""}, sk \in {<<>>, <<"Go", "Rust">>},
        wh \in UpToOne(WorkEntries), pr \in UpToOne(ProjectEntries),
        ed \in UpToOne(EducationEntries),
        ref \in Optional("https://example.com")}

\* z.string().min(n)
StringMin(o, f, n) == Prop(o, f) # Undefined /\ Len(o[f]) >= n

\* z.string().url().optional().or(z.literal(''))
OptionalUrl(o, f) ==
    Prop(o, f) \in {Undefined, "", "https://site.example",
                    "https://github.com/jane/site", "https://example.com"}

\* workExperienceSchema
workExperienceSchema(w) ==
    /\ StringMin(w, "position", 2)
    /\ StringMin(w, "company", 2)
    /\ StringMin(w, "duration", 2)
    /\ Len(w.bullets) >= 1

\* projectSchema
projectSchema(proj) ==
    /\ StringMin(proj, "title", 2)
    /\ StringMin(proj, "description", 10)
    /\ Len(proj.stack) >= 1
    /\ \A k \in 1..Len(proj.stack) : Len(proj.stack[k]) >= 1
    /\ OptionalUrl(proj, "url")
    /\ OptionalUrl(proj, "github")

\* educationSchema: endMonth and endYear are optional
educationSchema(edu) ==
    /\ StringMin(edu, "school", 2)
    /\ StringMin(edu, "degree", 2)
    /\ StringMin(edu, "cgpa", 1)
    /\ StringMin(edu, "startMonth", 1)
    /\ StringMin(edu, "startYear", 4)
    /\ "isPresent" \in DOMAIN edu

\* completeFormSchema
completeFormSchema(profile) ==
    /\ StringMin(profile, "name", 2)
    /\ StringMin(profile, "title", 2)
    /\ Len(profile.workHistory) >= 1
    /\ \A k \in 1..Len(profile.workHistory) :
          workExperienceSchema(profile.workHistory[k])
    /\ \A k \in 1..Len(profile.projects) : projectSchema(profile.projects[k])
    /\ Len(profile.skills) >= 1
    /\ Len(profile.education) >= 1
    /\ \A k \in 1..Len(profile.education) :
          educationSchema(profile.education[k])
    /\ OptionalUrl(profile, "referenceSite")

PromptInit ==
    /\ env = {}
    /\ oaClient = FALSE
    /\ oaInitialized = FALSE
    /\ genAI = FALSE
    /\ gemApiKey = FALSE
    /\ gemInitialized = FALSE
    /\ routeOpenai = FALSE
    /\ pc = "prompt"
    /\ client \in {"openai", "gemini", "route"}
    /\ userData \in PromptProfiles
    /\ requests = 0
    /\ response = NoResponse
    /\ parserInput = NotParsed
    /\ outcome = Pending
    /\ PageNotLoaded
    /\ prompt = <<>>
    /\ FormNotOpened

\* buildPrompt(userData) of the chosen implementation
PromptStep ==
    /\ pc = "prompt"
    /\ pc' = "prompted"
    /\ prompt' = CASE client = "openai" -> OpenAI_buildPrompt(userData)
                   [] client = "gemini" -> Gemini_buildPrompt(userData)
                   [] OTHER -> Route_buildPrompt(userData)
    /\ UNCHANGED <<env, oaClient, oaInitialized, genAI, gemApiKey,
                   gemInitialized, routeOpenai, client, userData, requests,
                   response, parserInput, outcome, pageVars, formVars>>

PromptNext == PromptStep

SpecPrompt == PromptInit /\ [][PromptNext]_vars

----------------------------------------------------------------------------
(* Vocabulary of the properties *)

HasDoctype(s)   == \E i \in 1..Len(s) : IsDoctype(s[i])
HasCloseHtml(s) == \E i \in 1..Len(s) : IsCloseHtml(s[i])

\* the text holds a doctype declaration with a closing html tag after it
HasSpan(s) ==
    \E i \in 1..Len(s) : \E j \in (i + 1)..Len(s) :
        IsDoctype(s[i]) /\ IsCloseHtml(s[j])

FirstDoctype(s) == MinOf({i \in 1..Len(s) : IsDoctype(s[i])})
LastCloseHtml(s) == MaxOf({j \in 1..Len(s) : IsCloseHtml(s[j])})
FirstCloseHtmlAfter(s, i) ==
    MinOf({j \in (i + 1)..Len(s) : IsCloseHtml(s[j])})

OpenPositions(s, kind)  == {i \in 1..Len(s) : IsOpenTag(kind, s[i])}
ClosePositions(s, kind) == {i \in 1..Len(s) : IsCloseTag(kind, s[i])}

\* the text holds exactly one block of the kind, inside its doctype-to-html
\* span
OneBlock(s, kind) ==
    /\ HasSpan(s)
    /\ Cardinality(OpenPositions(s, kind)) = 1
    /\ Cardinality(ClosePositions(s, kind)) = 1
    /\ \E o \in OpenPositions(s, kind) : \E c \in ClosePositions(s, kind) :
          FirstDoctype(s) < o /\ o < c /\ c < LastCloseHtml(s)

\* the text between the opening and the closing tag of that block
InnerText(s, kind) ==
    LET o == CHOOSE i \in OpenPositions(s, kind) : TRUE
        c == CHOOSE i \in ClosePositions(s, kind) : TRUE
    IN  SubSeq(s, o + 1, c - 1)

ClientCall == pc = "settled" /\ client \in {"openai", "gemini"}

Returned == ClientCall /\ outcome.kind = "artifact"

\* the call succeeded with a text long enough to be parsed that holds no
\* doctype-to-html span
RawTextPath ==
    /\ response.kind = "text"
    /\ StrLen(response.text) >= MinContentLength
    /\ ~HasSpan(response.text)

\* the page says that the generation failed
StatesFailure(html) ==
    \/ client = "openai" /\ GenerationFailedText \in Tokens(html)
    \/ client = "gemini" /\ "<h3>API Error Detected</h3>" \in Tokens(html)

\* the page names the missing credential
NamesMissingCredential(html) ==
    \/ client = "openai" /\ "OpenAI API key not found" \in Tokens(html)
    \/ client = "gemini" /\ KeyNotAccessibleText \in Tokens(html)

ParsedText == parserInput.text
Art == outcome.artifact

----------------------------------------------------------------------------
(* C1 *)

\* C1 as stated: every artifact generateWebsite returns has a non-empty html
\* that holds a doctype declaration and a closing html tag.
C1_AsStated ==
    Returned =>
        /\ Art.html # <<>>
        /\ HasDoctype(Art.html)
        /\ HasCloseHtml(Art.html)

\* C1, amended: every artifact generateWebsite returns has a non-empty html;
\* it holds a doctype declaration and a closing html tag unless the call
\* succeeded with a text of at least 100 characters without a
\* doctype-to-html span, and then html is that text, unchanged.
C1_HtmlNonEmptyAndCompleteUnlessRawText ==
    Returned =>
        /\ Art.html # <<>>
        /\ IF RawTextPath THEN Art.html = response.text
           ELSE HasDoctype(Art.html) /\ HasCloseHtml(Art.html)

C1_Witness ==
    /\ Returned
    /\ response.kind = "text"
    /\ parserInput.called
    /\ ~RawTextPath
    /\ Art.html # response.text

----------------------------------------------------------------------------
(* C2 *)

\* C2: when the external call throws or rejects, generateWebsite resolves,
\* and the html of its artifact is a non-empty text that says the
\* generation failed.
C2_RejectionYieldsFailurePage ==
    (ClientCall /\ response.kind = "throw") =>
        /\ outcome.kind = "artifact"
        /\ Art.html # <<>>
        /\ StatesFailure(Art.html)

----------------------------------------------------------------------------
(* C3 *)

C3_NoCredential ==
    \/ /\ client = "openai"
       /\ \/ {"NEXT_PUBLIC_OPENAI_API_KEY", "OPENAI_API_KEY"} \cap env = {}
          \/ ~oaClient
    \/ /\ client = "gemini"
       /\ \/ {"NEXT_PUBLIC_GEMINI_API_KEY", "GEMINI_API_KEY"} \cap env = {}
          \/ ~genAI

\* C3: when no API key can be resolved (none is in the environment, or the
\* client holds none), generateWebsite sends no request to the external
\* service and the html of its artifact names the missing credential.
C3_NoCredentialNoCall ==
    (ClientCall /\ C3_NoCredential) =>
        /\ requests = 0
        /\ response = NoResponse
        /\ outcome.kind = "artifact"
        /\ NamesMissingCredential(Art.html)

C3_Witness ==
    /\ ClientCall
    /\ client = "openai"
    /\ {"NEXT_PUBLIC_OPENAI_API_KEY", "OPENAI_API_KEY"} \cap env = {}
    /\ outcome.kind = "artifact"

----------------------------------------------------------------------------
(* C4 *)

\* C4: the POST handler always answers with a GeneratedWebsite that carries
\* an HTML document, also when the key is missing, the call throws or the
\* content is empty or too short.
C4_RouteAlwaysAnswersArtifact ==
    (pc = "settled" /\ client = "route") =>
        /\ outcome.kind = "artifact"
        /\ Art.html # <<>>

----------------------------------------------------------------------------
(* C5 *)

\* C5: generateWebsite hands the response text to the parser exactly when
\* the response has a text of at least 100 characters, and then the artifact
\* is the parse of that text; a response without candidates or content, or
\* with a shorter text, yields the diagnostic fallback artifact.
C5_ShortResponsesAreNotParsed ==
    ClientCall =>
        /\ parserInput.called <=>
              (response.kind = "text"
                  /\ StrLen(response.text) >= MinContentLength)
        /\ parserInput.called => ParsedText = response.text
        /\ (~parserInput.called
                /\ response.kind \in {"no_content", "no_candidates", "text"}) =>
              /\ outcome.kind = "artifact"
              /\ StatesFailure(Art.html)

C5_Witness ==
    /\ ClientCall
    /\ response.kind = "text"
    /\ StrLen(response.text) = MinContentLength - 1
    /\ ~parserInput.called
    /\ outcome.kind = "artifact"

----------------------------------------------------------------------------
(* C6 *)

\* C6: for a text with a doctype-to-html span and neither style nor script
\* tags, the css and js of the parsed artifact are non-empty.
C6_PlaceholdersNeverEmpty ==
    (/\ pc = "parsed"
     /\ HasSpan(ParsedText)
     /\ \A kind \in {"style", "script"} :
            OpenPositions(ParsedText, kind) \cup ClosePositions(ParsedText, kind) = {})
    => Art.css # <<>> /\ Art.js # <<>>

----------------------------------------------------------------------------
(* C7 *)

OneBlockEach ==
    /\ pc = "parsed"
    /\ client \in {"openai", "route"}
    /\ OneBlock(ParsedText, "style")
    /\ OneBlock(ParsedText, "script")

----------------------------------------------------------------------------
(* C8 *)

\* C8: for a text without a doctype-to-html span, parsing yields an artifact
\* whose html and preview are the whole text, unchanged.
C8_NoSpanKeepsRawText ==
    (pc = "parsed" /\ ~HasSpan(ParsedText)) =>
        /\ outcome.kind = "artifact"
        /\ Art.html = ParsedText
        /\ Art.preview = ParsedText

C8_Witness ==
    /\ pc = "parsed"
    /\ ~HasSpan(ParsedText)
    /\ HasDoctype(ParsedText)
    /\ HasCloseHtml(ParsedText)
    /\ Art.html = ParsedText

----------------------------------------------------------------------------
(* C9 *)

\* C9 as stated: html is the span from the first doctype declaration to the
\* closing html tag that ends it, so that what follows that tag is not part
\* of html.
C9_AsStated ==
    (pc = "parsed" /\ HasSpan(ParsedText)) =>
        Art.html = SubSeq(ParsedText, FirstDoctype(ParsedText),
                          FirstCloseHtmlAfter(ParsedText, FirstDoctype(ParsedText)))

\* C9, amended: html is the span from the first doctype declaration to the
\* last closing html tag of the text, matched without regard to case; text
\* before the first doctype and after the last closing html tag is left out,
\* and a further document between them is kept.
C9_FirstDoctypeToLastCloseHtml ==
    (pc = "parsed" /\ HasSpan(ParsedText)) =>
        Art.html = SubSeq(ParsedText, FirstDoctype(ParsedText),
                          LastCloseHtml(ParsedText))

C9_Witness ==
    /\ pc = "parsed"
    /\ HasSpan(ParsedText)
    /\ FirstCloseHtmlAfter(ParsedText, FirstDoctype(ParsedText))
          < LastCloseHtml(ParsedText)
    /\ LastCloseHtml(ParsedText) < Len(ParsedText)
    /\ Len(Art.html) = LastCloseHtml(ParsedText) - FirstDoctype(ParsedText) + 1

----------------------------------------------------------------------------
(* C10 *)

OwnFallbackParsed ==
    /\ pc = "parsed"
    /\ \/ client = "openai" /\ ParsedText \in OpenAIFallbackDocuments
       \/ client = "gemini" /\ ParsedText \in GeminiFallbackDocuments

\* C10: parsing a client's own diagnostic fallback html gives an artifact
\* whose html is that fallback html.
C10_FallbackRoundTrip ==
    OwnFallbackParsed => Art.html = ParsedText

C10_Witness ==
    /\ OwnFallbackParsed
    /\ Cardinality({i \in 1..Len(ParsedText) : IsCloseHtml(ParsedText[i])}) > 1
    /\ Art.html = ParsedText

----------------------------------------------------------------------------
(* C11 *)

\* the invocation returned a diagnostic page after the external call had
\* settled: the call was rejected, or it answered nothing that was parsed
FailurePathFallback ==
    /\ Returned
    /\ response.kind # "none"
    /\ ~parserInput.called

\* the page shows the name, the title and the four counts of the profile
EchoesProfile(html, profile) ==
    /\ profile.name \in Tokens(html)
    /\ profile.title \in Tokens(html)
    /\ \A list \in {profile.skills, profile.workHistory, profile.projects,
                    profile.education} :
          ToString(Len(list)) \in Tokens(html)

\* C11: every diagnostic page generateWebsite returns on a failure path
\* (rejected call, response without candidates or content, text too short)
\* states the failure and shows the name, the title and the counts of
\* skills, work-experience entries, projects and education entries of the
\* profile of the invocation.
C11_FallbackEchoesProfile ==
    FailurePathFallback =>
        /\ StatesFailure(Art.html)
        /\ EchoesProfile(Art.html, userData)

----------------------------------------------------------------------------
(* C12 *)

\* no API key of the client of the invocation is in the environment
NoKeyConfigured ==
    \/ /\ client = "openai"
       /\ {"NEXT_PUBLIC_OPENAI_API_KEY", "OPENAI_API_KEY"} \cap env = {}
    \/ /\ client = "gemini"
       /\ {"NEXT_PUBLIC_GEMINI_API_KEY", "GEMINI_API_KEY"} \cap env = {}

\* the page says that the API has to be configured
StatesConfigurationRequired(html) ==
    \/ "<h1>OpenAI API Configuration Required</h1>" \in Tokens(html)
    \/ "<p><strong>API Configuration Issue:</strong></p>" \in Tokens(html)

\* C12: with no credential configured, generateWebsite on the profile named
\* "Jane Doe" (no work history, projects or education) returns an artifact
\* whose html holds the name and says that configuration is required, and
\* whose css and js are not empty.
C12_JaneDoeWithoutCredential ==
    (ClientCall /\ NoKeyConfigured /\ userData = JaneDoe) =>
        /\ outcome.kind = "artifact"
        /\ "Jane Doe" \in Tokens(Art.html)
        /\ StatesConfigurationRequired(Art.html)
        /\ Art.css # <<>>
        /\ Art.js # <<>>

----------------------------------------------------------------------------
(* C13 *)

\* an invocation of generateWebsite has started and not yet been returned
ClientInvocation == pc \in {"awaiting", "settled"} /\ client \in {"openai", "gemini"}

\* the client of the invocation holds a credential: the OpenAI client
\* object, or the GoogleGenerativeAI object together with the key
HoldsCredential ==
    \/ client = "openai" /\ oaClient
    \/ client = "gemini" /\ genAI /\ gemApiKey

----------------------------------------------------------------------------
(* C14 *)

\* a click on the Regenerate control would start a generation
RegenerateClickable(control) == MainView /\ ~Regenerate_disabled(control)

\* C14: on the preview page the page awaits at most one generateWebsite call
\* at any time, and while it awaits one, neither Regenerate control can be
\* clicked: it is disabled, or the view that holds it is not shown.
C14_OneGenerationInFlight ==
    /\ Len(generating) <= 1
    /\ generating # <<>> =>
          \A control \in RegenerateControls : ~RegenerateClickable(control)

C14_Witness ==
    /\ Len(generating) = 1
    /\ generating[1].trigger = "regenerate"
    /\ generating[1].sent
    /\ MainView
    /\ isRegenerating

----------------------------------------------------------------------------
(* C15 *)

\* a click on the Download control would start a download
DownloadClickable(control) == MainView /\ ~Download_disabled(control)

\* C15: on the preview page the page awaits at most one download at any
\* time, and while it awaits one, no Download control can be clicked.
C15_OneDownloadInFlight ==
    /\ downloading <= 1
    /\ downloading > 0 =>
          \A control \in DownloadControls : ~DownloadClickable(control)

----------------------------------------------------------------------------
(* C16 *)

\* C16: once a generateWebsite call of the page has settled, the artifact
\* the page holds is the value the call that settled last returned, html,
\* css, js and preview together; and a step that changes the artifact the
\* page holds sets it to the value returned by the call that settles in
\* that step.
C16_ArtifactOfLastCall ==
    /\ [](lastCall # Pending =>
            /\ lastCall.kind = "artifact"
            /\ generatedWebsite = lastCall.artifact)
    /\ [][generatedWebsite' # generatedWebsite =>
            /\ lastCall'.kind = "artifact"
            /\ generatedWebsite' = lastCall'.artifact
            /\ Len(generating') = Len(generating) - 1]_vars

----------------------------------------------------------------------------
(* C17 *)

\* the page awaits a generateWebsite call started by the trigger
InFlight(trigger) ==
    \E i \in 1..Len(generating) : generating[i].trigger = trigger

\* C17: if the awaited calls settle in the end, a generation the page has
\* started is followed by isLoading = false (initial generation) or
\* isRegenerating = false (regeneration), whether the call resolved or
\* rejected; and a call stops being awaited only in a step that resets its
\* flag.
C17_FlagsAreReset ==
    /\ InFlight("initial") ~> (~InFlight("initial") /\ ~isLoading)
    /\ InFlight("regenerate") ~> (~InFlight("regenerate") /\ ~isRegenerating)
    /\ [][/\ (InFlight("initial") /\ ~InFlight("initial")') => ~isLoading'
          /\ (InFlight("regenerate") /\ ~InFlight("regenerate")')
                => ~isRegenerating']_vars

C17_Witness ==
    /\ lastCall.kind = "rejected"
    /\ generating = <<>>
    /\ ~isLoading
    /\ ~isRegenerating

----------------------------------------------------------------------------
(* C18 *)

\* C18: once the preview page, opened with saved form data, has finished
\* its initial generation (isLoading is false), generatedWebsite is not
\* null: the page shows the preview and never "Something went wrong".
C18_NeverNoWebsiteView ==
    (mounted /\ savedFormData # Null /\ ~isLoading) =>
        /\ generatedWebsite # Null
        /\ ~NoWebsiteView

----------------------------------------------------------------------------
(* C19 *)

\* C19: for every profile the form schema accepts, the prompt buildPrompt
\* returns does not hold the text "undefined": a project URL or GitHub link,
\* a reference site or an end date that is left out is not printed as
\* undefined.
C19_NoUndefinedInPrompt ==
    (pc = "prompted" /\ completeFormSchema(userData)) =>
        "undefined" \notin Tokens(prompt)

----------------------------------------------------------------------------
(* C20 *)

\* the texts that open the sections of skills, work history, projects and
\* education in the prompt of the client, and the text that follows the last
SectionMarks ==
    IF client = "gemini"
    THEN <<"\nSkills: ", "\n\nWork Experience:\n", "\n\nProjects Portfolio:\n",
           "\n\nEducational Background:\n", "\n\nDESIGN EXECUTION:">>
    ELSE <<"\nSkills: ", "\n\nExperience:\n", "\n\nProjects:\n",
           "\n\nEducation:\n",
           "\n\nREQUIREMENTS:\n- Single HTML file with embedded CSS/JS">>

PositionOf(s, t) == CHOOSE i \in 1..Len(s) : s[i] = t

\* what the prompt holds in its k-th section
Section(k) ==
    SubSeq(prompt, PositionOf(prompt, SectionMarks[k]) + 1,
           PositionOf(prompt, SectionMarks[k + 1]) - 1)

\* the list fields of the profile, in the order of their sections
ListFields == <<"skills", "workHistory", "projects", "education">>

\* C20: for a profile with a non-empty name, the section of every empty
\* list (skills, work history, projects, education) is not empty in the
\* prompt: it holds a placeholder text.
C20_EmptyListsHavePlaceholders ==
    (pc = "prompted" /\ userData.name # "") =>
        \A k \in 1..4 :
            Len(userData[ListFields[k]]) = 0 => Section(k) # <<>>

----------------------------------------------------------------------------
(* C25 *)

\* the outcome of the invocation is the page GeminiClient returns when it
\* holds no credential, and nothing was sent
MissingCredentialFallback ==
    /\ pc = "settled"
    /\ requests = 0
    /\ outcome = Resolved(Gemini_getMockWebsite(userData))

\* C25: GeminiClient looks the credential up at most once: as soon as
\* generateWebsite has been called the instance is initialized, with or
\* without a key; an initialized instance never changes its key or its
\* service object again; and every call on an instance that holds no key
\* returns the missing-credential page without a request, whatever the
\* environment holds by then.
C25_CredentialResolvedOnce ==
    /\ [](client = "gemini" =>
            /\ gemInitialized
            /\ ~gemApiKey => MissingCredentialFallback)
    /\ [][gemInitialized =>
            /\ gemInitialized'
            /\ gemApiKey' = gemApiKey
            /\ genAI' = genAI]_vars

\* a second call on an instance initialized without a key, made after a key
\* was configured, has returned
C25_Witness ==
    /\ client = "gemini"
    /\ Gemini_KeyFound
    /\ ~gemApiKey
    /\ MissingCredentialFallback

----------------------------------------------------------------------------
(* C26 *)

\* the invocation failed in initializeIfNeeded because no key was found
KeyNotFoundFailure ==
    /\ client = "openai"
    /\ outcome = Resolved(OpenAI_getMockWebsiteWithError(
                     <<"OpenAI API key not found">>))

----------------------------------------------------------------------------
(* C27 *)

\* C27: every GeneratedWebsite an invocation returns, on any path of any of
\* the three implementations, has a preview equal to its html.
C27_PreviewEqualsHtml ==
    outcome.kind = "artifact" => outcome.artifact.preview = outcome.artifact.html

\* a parsed model output whose document is a proper part of the text
C27_Witness ==
    /\ outcome.kind = "artifact"
    /\ client = "gemini"
    /\ parserInput.called
    /\ outcome.artifact.html # parserInput.text
    /\ outcome.artifact.html # <<>>

----------------------------------------------------------------------------
(* C28 *)

\* nothing is stored under 'portfoliAI_formData'
NothingStored == savedFormData = Null

\* C28: every generateWebsite call the preview page awaits was made for the
\* profile loaded from local storage; when nothing is stored the effect
\* sends the browser to the form, GeminiClient is never called, and no
\* profile, artifact, regeneration or download ever appears; a generation
\* starts only with a profile in formData and a download only with a profile
\* and an artifact.
C28_GeneratesOnlyForStoredProfile ==
    /\ [](/\ \A i \in 1..Len(generating) :
                ~NothingStored /\ generating[i].userData = savedFormData
          /\ formData \in {Null, savedFormData}
          /\ (NothingStored /\ mounted) => location = "/form"
          /\ NothingStored =>
                /\ generating = <<>>
                /\ ~gemInitialized
                /\ formData = Null
                /\ generatedWebsite = Null
                /\ ~isRegenerating
                /\ downloading = 0)
    /\ [][/\ Len(generating') > Len(generating) =>
                (formData' # Null /\ formData' = savedFormData)
          /\ downloading' > downloading =>
                (formData # Null /\ generatedWebsite # Null)]_vars

\* the page was opened with nothing stored and its effect has run
C28_Witness ==
    /\ NothingStored
    /\ mounted
    /\ location = "/form"
    /\ generating = <<>>

----------------------------------------------------------------------------
(* The requests handed to the external services *)

\* most requests followed in SpecRequest
MaxRequests == 2

SystemMessage ==
    "You are an expert web developer who creates professional portfolio websites. Always return complete, valid HTML code with embedded CSS and JavaScript."

\* a faulty variant of OpenAI_request: the prompt ends with the number of
\* requests sent before this one
OpenAI_requestNumbered(profile) ==
    [model |-> "gpt-4o",
     messages |-> <<[role |-> "system", content |-> <<SystemMessage>>],
                    [role |-> "user",
                     content |-> OpenAI_buildPrompt(profile)
                                 \o <<ToString(Len(sentRequests))>>]>>,
     max_tokens |-> 4000, temperature |-> "0.7", top_p |-> "0.9"]

\* the argument of chat.completions.create in OpenAIClient.generateWebsite
OpenAI_request(profile) ==
    [model |-> "gpt-4o",
     messages |-> <<[role |-> "system", content |-> <<SystemMessage>>],
                    [role |-> "user", content |-> OpenAI_buildPrompt(profile)]>>,
     max_tokens |-> 4000, temperature |-> "0.7", top_p |-> "0.9"]

\* the argument of chat.completions.create in POST of route.ts
Route_request(profile) ==
    [model |-> "gpt-5",
     messages |-> <<[role |-> "system", content |-> <<SystemMessage>>],
                    [role |-> "user", content |-> Route_buildPrompt(profile)]>>,
     max_tokens |-> 4000, temperature |-> "0.7", top_p |-> "0.9"]

\* the arguments of getGenerativeModel and generateContent in
\* GeminiClient.generateWebsite
Gemini_request(profile) ==
    [model |-> "gemini-1.5-flash",
     generationConfig |-> [temperature |-> "0.7", topP |-> "0.8", topK |-> 40,
                           maxOutputTokens |-> 8192],
     safetySettings |->
        <<[category |-> "HARM_CATEGORY_HARASSMENT", threshold |-> "BLOCK_NONE"],
          [category |-> "HARM_CATEGORY_HATE_SPEECH", threshold |-> "BLOCK_NONE"],
          [category |-> "HARM_CATEGORY_SEXUALLY_EXPLICIT", threshold |-> "BLOCK_NONE"],
          [category |-> "HARM_CATEGORY_DANGEROUS_CONTENT", threshold |-> "BLOCK_NONE"]>>,
     contents |-> Gemini_buildPrompt(profile)]

\* the request one implementation builds for a profile
RequestOf(c, profile) ==
    CASE c = "openai" -> OpenAI_request(profile)
      [] c = "route" -> Route_request(profile)
      [] c = "gemini" -> Gemini_request(profile)

\* the implementation finds its key in the environment
KeyFound(c) ==
    CASE c = "openai" -> OpenAI_KeyFound
      [] c = "route" -> "OPENAI_API_KEY" \in env
      [] c = "gemini" -> Gemini_KeyFound

\* generateWebsite (or POST) of implementation c is called for profile p while
\* its key is configured: it builds the prompt and hands the request to the
\* external service
SendRequest(c, p) ==
    /\ Len(sentRequests) < MaxRequests
    /\ KeyFound(c)
    /\ sentRequests' = Append(sentRequests,
                              [client |-> c, userData |-> p,
                               request |-> RequestOf(c, p)])
    /\ UNCHANGED <<clientVars, invocationVars, pageVars, prompt, formPageData,
                   currentStep, isGenerating, projectsValues, workHistoryValues,
                   educationValues, skills, currentSkill, timers,
                   referenceSiteValue>>

RequestNext ==
    \/ \E c \in {"openai", "route", "gemini"}, p \in Profiles : SendRequest(c, p)
    \/ \E k \in EnvNames : ConfigureKey(k)

SpecRequest == Init /\ [][RequestNext]_vars

----------------------------------------------------------------------------
(* C21 *)

----------------------------------------------------------------------------
(* ProjectsStep *)

\* most projects in the form of ProjectsStep in SpecProjects
MaxProjects == 1

\* most technology-stack inputs of one project in SpecProjects
MaxStack == 2

\* String.prototype.trim, on the texts typed into the forms
Trim(s) ==
    CASE s = " " -> ""
      [] s = " React" -> "React"
      [] s = "React " -> "React"
      [] OTHER -> s

\* what is typed into the title and description inputs of a project
ProjectTexts ==
    [title |-> {"", "S", "Shop"},
     description |-> {"", "A shop", "An online shop"}]

\* what is typed into a technology-stack input
StackTexts == {"", " ", "React"}

\* fields[projectIndex].stack, read by addTechStack, removeTechStack and the
\* rendering: the stack of the form values, or, when useFieldArray has not
\* refreshed fields since the project was appended, the stack it was
\* appended with
FieldsStack(projectIndex) == {projectsValues[projectIndex].stack, <<"">>}

\* the frame of the actions of ProjectsStep
ProjectsStep_unchanged ==
    UNCHANGED <<clientVars, invocationVars, pageVars, prompt, sentRequests,
                isGenerating, workHistoryValues, educationValues, skills,
                currentSkill, timers, referenceSiteValue>>

\* addProject: append({ title: '', description: '', stack: [''], url: '',
\* github: '' })
ProjectsStep_addProject ==
    /\ currentStep = 3
    /\ Len(projectsValues) < MaxProjects
    /\ projectsValues' = Append(projectsValues,
                                [title |-> "", description |-> "",
                                 stack |-> <<"">>, url |-> "", github |-> ""])
    /\ UNCHANGED <<formPageData, currentStep>>
    /\ ProjectsStep_unchanged

\* typing into the title or the description input of a project
\* (register(`projects.${projectIndex}.title`), ...)
ProjectsStep_change(projectIndex, f, v) ==
    /\ currentStep = 3
    /\ projectIndex \in 1..Len(projectsValues)
    /\ projectsValues' = [projectsValues EXCEPT ![projectIndex][f] = v]
    /\ UNCHANGED <<formPageData, currentStep>>
    /\ ProjectsStep_unchanged

\* typing into a technology-stack input
\* (register(`projects.${projectIndex}.stack.${stackIndex}`))
ProjectsStep_changeStack(projectIndex, stackIndex, v) ==
    /\ currentStep = 3
    /\ projectIndex \in 1..Len(projectsValues)
    /\ \E stack \in FieldsStack(projectIndex) : stackIndex \in 1..Len(stack)
    /\ stackIndex \in 1..Len(projectsValues[projectIndex].stack)
    /\ projectsValues' =
          [projectsValues EXCEPT ![projectIndex].stack[stackIndex] = v]
    /\ UNCHANGED <<formPageData, currentStep>>
    /\ ProjectsStep_unchanged

\* addTechStack
ProjectsStep_addTechStack(projectIndex) ==
    /\ currentStep = 3
    /\ projectIndex \in 1..Len(projectsValues)
    /\ \E currentStack \in FieldsStack(projectIndex) :
          /\ Len(currentStack) < MaxStack
          /\ projectsValues' =
                [projectsValues EXCEPT
                    ![projectIndex].stack = Append(currentStack, "")]
    /\ UNCHANGED <<formPageData, currentStep>>
    /\ ProjectsStep_unchanged

\* the sequence without its element at position i
RemoveAt(seq, i) == SubSeq(seq, 1, i - 1) \o SubSeq(seq, i + 1, Len(seq))

\* removeTechStack, behind a button that is rendered when field.stack has
\* more than one element
ProjectsStep_removeTechStack(projectIndex, stackIndex) ==
    /\ currentStep = 3
    /\ projectIndex \in 1..Len(projectsValues)
    /\ \E currentStack \in FieldsStack(projectIndex) :
          /\ Len(currentStack) > 1
          /\ stackIndex \in 1..Len(currentStack)
          /\ projectsValues' =
                [projectsValues EXCEPT
                    ![projectIndex].stack = RemoveAt(currentStack, stackIndex)]
    /\ UNCHANGED <<formPageData, currentStep>>
    /\ ProjectsStep_unchanged

\* projectsSchema: z.array(projectSchema).default([])
projectsSchema(data) ==
    \A i \in 1..Len(data.projects) : projectSchema(data.projects[i])

\* stack.filter(tech => tech.trim() !== '')
FilterBlank(stack) == SelectSeq(stack, LAMBDA tech : Trim(tech) # "")

\* onSubmit, called by handleSubmit when the values pass projectsSchema:
\* updateFormData(cleanedData), onNext()
ProjectsStep_onSubmit ==
    /\ currentStep = 3
    /\ projectsSchema([projects |-> projectsValues])
    /\ LET cleanedData ==
              [projects |->
                  [i \in 1..Len(projectsValues) |->
                      [projectsValues[i] EXCEPT
                          !.stack = FilterBlank(projectsValues[i].stack)]]]
       IN  formPageData' = [formPageData EXCEPT !.projects = cleanedData.projects]
    /\ currentStep' = currentStep + 1
    /\ UNCHANGED projectsValues
    /\ ProjectsStep_unchanged

\* the form page shows the projects step, with no project stored so far
ProjectsInit ==
    /\ env = {}
    /\ oaClient = FALSE
    /\ oaInitialized = FALSE
    /\ genAI = FALSE
    /\ gemApiKey = FALSE
    /\ gemInitialized = FALSE
    /\ routeOpenai = FALSE
    /\ pc = "idle"
    /\ client = "none"
    /\ userData = NoProfile
    /\ requests = 0
    /\ response = NoResponse
    /\ parserInput = NotParsed
    /\ outcome = Pending
    /\ PageNotLoaded
    /\ prompt = <<>>
    /\ sentRequests = <<>>
    /\ formPageData = initialFormData
    /\ currentStep = 3
    /\ isGenerating = FALSE
    /\ projectsValues = <<>>
    /\ workHistoryValues = <<>>
    /\ educationValues = <<>>
    /\ skills = <<>>
    /\ currentSkill = ""
    /\ timers = <<>>
    /\ referenceSiteValue = ""

ProjectsNext ==
    \/ ProjectsStep_addProject
    \/ \E i \in 1..MaxProjects, f \in {"title", "description"} :
          \E v \in ProjectTexts[f] : ProjectsStep_change(i, f, v)
    \/ \E i \in 1..MaxProjects, j \in 1..MaxStack, v \in StackTexts :
          ProjectsStep_changeStack(i, j, v)
    \/ \E i \in 1..MaxProjects : ProjectsStep_addTechStack(i)
    \/ \E i \in 1..MaxProjects, j \in 1..MaxStack :
          ProjectsStep_removeTechStack(i, j)
    \/ ProjectsStep_onSubmit

SpecProjects == ProjectsInit /\ [][ProjectsNext]_vars

----------------------------------------------------------------------------
(* C22 *)

\* C22: every project ProjectsStep has stored into the form data has at
\* least one technology-stack string.
C22_StoredProjectsHaveStack ==
    \A i \in 1..Len(formPageData.projects) :
        Len(formPageData.projects[i].stack) >= 1

----------------------------------------------------------------------------
(* The end dates of WorkHistoryStep and SkillsEducationStep *)

\* most work-history entries, and most education entries, in SpecDates
MaxEntries == 2

\* some of the values of MONTHS and of getYearOptions()
MonthValues == {"01", "06"}
YearValues == {"2020", "2024"}

\* what the end-date selects of an entry can set a field to
EndValues == [endMonth |-> MonthValues, endYear |-> YearValues]

\* the entry addWorkExperience appends, also the default entry of the form
BlankWorkExperience ==
    [position |-> "", company |-> "", startMonth |-> "", startYear |-> "",
     endMonth |-> "", endYear |-> "", isPresent |-> FALSE, bullets |-> <<"">>]

\* the entry addEducation appends, also the default entry of the form
BlankEducation ==
    [school |-> "", degree |-> "", cgpa |-> "", startMonth |-> "",
     startYear |-> "", endMonth |-> "", endYear |-> "", isPresent |-> FALSE]

\* the frame of the actions of the two steps on their end dates
Dates_unchanged ==
    UNCHANGED <<clientVars, invocationVars, pageVars, prompt, sentRequests,
                formPageData, currentStep, isGenerating, projectsValues,
                skills, currentSkill, timers, referenceSiteValue>>

\* a faulty variant of TogglePresent: only endMonth is cleared
TogglePresentMonthOnly(values, index) ==
    LET newValue == ~values[index].isPresent
    IN  IF newValue
        THEN [values EXCEPT ![index].isPresent = newValue,
                            ![index].endMonth = ""]
        ELSE [values EXCEPT ![index].isPresent = newValue]

\* togglePresent: the flag is inverted, and when it becomes true endMonth
\* and endYear are set to ''
TogglePresent(values, index) ==
    LET newValue == ~values[index].isPresent
    IN  IF newValue
        THEN [values EXCEPT ![index].isPresent = newValue,
                            ![index].endMonth = "",
                            ![index].endYear = ""]
        ELSE [values EXCEPT ![index].isPresent = newValue]

\* addWorkExperience
WorkHistoryStep_addWorkExperience ==
    /\ currentStep = 2
    /\ Len(workHistoryValues) < MaxEntries
    /\ workHistoryValues' = Append(workHistoryValues, BlankWorkExperience)
    /\ UNCHANGED educationValues
    /\ Dates_unchanged

\* remove(experienceIndex), behind a button rendered when there is more than
\* one entry
WorkHistoryStep_remove(experienceIndex) ==
    /\ currentStep = 2
    /\ Len(workHistoryValues) > 1
    /\ experienceIndex \in 1..Len(workHistoryValues)
    /\ workHistoryValues' = RemoveAt(workHistoryValues, experienceIndex)
    /\ UNCHANGED educationValues
    /\ Dates_unchanged

\* togglePresent of WorkHistoryStep
WorkHistoryStep_togglePresent(experienceIndex) ==
    /\ currentStep = 2
    /\ experienceIndex \in 1..Len(workHistoryValues)
    /\ workHistoryValues' = TogglePresent(workHistoryValues, experienceIndex)
    /\ UNCHANGED educationValues
    /\ Dates_unchanged

\* onValueChange of an end-date select of WorkHistoryStep; the select is
\* disabled while the entry is marked Present
WorkHistoryStep_selectEnd(experienceIndex, f, value) ==
    /\ currentStep = 2
    /\ experienceIndex \in 1..Len(workHistoryValues)
    /\ ~workHistoryValues[experienceIndex].isPresent
    /\ workHistoryValues' =
          [workHistoryValues EXCEPT ![experienceIndex][f] = value]
    /\ UNCHANGED educationValues
    /\ Dates_unchanged

\* addEducation
SkillsEducationStep_addEducation ==
    /\ currentStep = 4
    /\ Len(educationValues) < MaxEntries
    /\ educationValues' = Append(educationValues, BlankEducation)
    /\ UNCHANGED workHistoryValues
    /\ Dates_unchanged

\* remove(educationIndex), behind a button rendered when there is more than
\* one entry
SkillsEducationStep_remove(educationIndex) ==
    /\ currentStep = 4
    /\ Len(educationValues) > 1
    /\ educationIndex \in 1..Len(educationValues)
    /\ educationValues' = RemoveAt(educationValues, educationIndex)
    /\ UNCHANGED workHistoryValues
    /\ Dates_unchanged

\* togglePresent of SkillsEducationStep
SkillsEducationStep_togglePresent(educationIndex) ==
    /\ currentStep = 4
    /\ educationIndex \in 1..Len(educationValues)
    /\ educationValues' = TogglePresent(educationValues, educationIndex)
    /\ UNCHANGED workHistoryValues
    /\ Dates_unchanged

\* onValueChange of an end-date select of SkillsEducationStep; the select is
\* disabled while the entry is marked Present
SkillsEducationStep_selectEnd(educationIndex, f, value) ==
    /\ currentStep = 4
    /\ educationIndex \in 1..Len(educationValues)
    /\ ~educationValues[educationIndex].isPresent
    /\ educationValues' = [educationValues EXCEPT ![educationIndex][f] = value]
    /\ UNCHANGED workHistoryValues
    /\ Dates_unchanged

\* the form page shows the work-history step or the skills and education
\* step, for the first time: each form holds its one blank default entry
DatesInit ==
    /\ env = {}
    /\ oaClient = FALSE
    /\ oaInitialized = FALSE
    /\ genAI = FALSE
    /\ gemApiKey = FALSE
    /\ gemInitialized = FALSE
    /\ routeOpenai = FALSE
    /\ pc = "idle"
    /\ client = "none"
    /\ userData = NoProfile
    /\ requests = 0
    /\ response = NoResponse
    /\ parserInput = NotParsed
    /\ outcome = Pending
    /\ PageNotLoaded
    /\ prompt = <<>>
    /\ sentRequests = <<>>
    /\ formPageData = initialFormData
    /\ currentStep \in {2, 4}
    /\ isGenerating = FALSE
    /\ projectsValues = <<>>
    /\ workHistoryValues = IF currentStep = 2 THEN <<BlankWorkExperience>> ELSE <<>>
    /\ educationValues = IF currentStep = 4 THEN <<BlankEducation>> ELSE <<>>
    /\ skills = <<>>
    /\ currentSkill = ""
    /\ timers = <<>>
    /\ referenceSiteValue = ""

DatesNext ==
    \/ WorkHistoryStep_addWorkExperience
    \/ \E i \in 1..MaxEntries : WorkHistoryStep_remove(i)
    \/ \E i \in 1..MaxEntries : WorkHistoryStep_togglePresent(i)
    \/ \E i \in 1..MaxEntries, f \in {"endMonth", "endYear"} :
          \E value \in EndValues[f] : WorkHistoryStep_selectEnd(i, f, value)
    \/ SkillsEducationStep_addEducation
    \/ \E i \in 1..MaxEntries : SkillsEducationStep_remove(i)
    \/ \E i \in 1..MaxEntries : SkillsEducationStep_togglePresent(i)
    \/ \E i \in 1..MaxEntries, f \in {"endMonth", "endYear"} :
          \E value \in EndValues[f] : SkillsEducationStep_selectEnd(i, f, value)

SpecDates == DatesInit /\ [][DatesNext]_vars

----------------------------------------------------------------------------
(* C23 *)

\* the entry is marked Present and holds no end date
PresentWithoutEndDate(entry) ==
    entry.isPresent => (entry.endMonth = "" /\ entry.endYear = "")

\* C23: in the work-history step and in the education step, every entry
\* marked Present has an empty endMonth and an empty endYear, and no step
\* changes the end date of an entry that is and stays marked Present.
C23_PresentEntriesHaveNoEndDate ==
    /\ [](/\ \A i \in 1..Len(workHistoryValues) :
                PresentWithoutEndDate(workHistoryValues[i])
          /\ \A i \in 1..Len(educationValues) :
                PresentWithoutEndDate(educationValues[i]))
    /\ [][/\ Len(workHistoryValues') = Len(workHistoryValues) =>
                \A i \in 1..Len(workHistoryValues) :
                    (workHistoryValues[i].isPresent /\ workHistoryValues'[i].isPresent)
                    => workHistoryValues'[i] = workHistoryValues[i]
          /\ Len(educationValues') = Len(educationValues) =>
                \A i \in 1..Len(educationValues) :
                    (educationValues[i].isPresent /\ educationValues'[i].isPresent)
                    => educationValues'[i] = educationValues[i]]_vars

\* an entry is marked Present next to one that holds a complete end date
C23_Witness ==
    /\ Len(educationValues) = 2
    /\ educationValues[1].isPresent
    /\ ~educationValues[2].isPresent
    /\ educationValues[2].endMonth # ""
    /\ educationValues[2].endYear # ""

----------------------------------------------------------------------------
(* The skills of SkillsEducationStep *)

\* most setTimeout callbacks of the skills step waiting to run in SpecSkills
MaxTimers == 1

\* some of suggestedSkills; the first two are among its first twelve, which
\* the step offers as popular skills
suggestedSkills == <<"JavaScript", "React", "REST APIs">>

\* suggestedSkills.slice(0, 12)
PopularSkills == {"JavaScript", "React"}

\* what is typed into the skill input
SkillTexts == {"", " ", "Re", "React", "React "}

\* skill.toLowerCase().includes(currentSkill.toLowerCase())
LowerCaseIncludes(skill, text) ==
    CASE text = "" -> TRUE
      [] text = " " -> skill = "REST APIs"
      [] text = "Re" -> skill \in {"React", "REST APIs"}
      [] text = "React" -> skill = "React"
      [] OTHER -> skill = text

\* Array.prototype.includes
Includes(list, s) == \E i \in 1..Len(list) : list[i] = s

\* availableSuggestions, shown when currentSkill is not empty
availableSuggestions ==
    IF currentSkill = "" THEN {}
    ELSE {suggestedSkills[i] : i \in {j \in 1..Len(suggestedSkills) :
              /\ ~Includes(skills, suggestedSkills[j])
              /\ LowerCaseIncludes(suggestedSkills[j], currentSkill)}}

\* a faulty variant of SkillAccepted: a skill already in the list is accepted
SkillAcceptedTwice(list, text) == Trim(text) # ""

\* the condition of addSkill:
\* currentSkill.trim() && !skills.includes(currentSkill.trim())
SkillAccepted(list, text) == Trim(text) # "" /\ ~Includes(list, Trim(text))

\* the frame of the actions of the skills step
Skills_unchanged ==
    UNCHANGED <<clientVars, invocationVars, pageVars, prompt, sentRequests,
                currentStep, isGenerating, projectsValues, workHistoryValues,
                educationValues, referenceSiteValue>>

\* the body of addSkill as one render defined it, with the skills and the
\* currentSkill of that render; updateFormData({ skills: newSkills }) merges
\* the list into the form data
AddSkill(renderedSkills, renderedCurrentSkill) ==
    IF SkillAccepted(renderedSkills, renderedCurrentSkill)
    THEN LET newSkills == Append(renderedSkills, Trim(renderedCurrentSkill))
         IN  /\ skills' = newSkills
             /\ currentSkill' = ""
             /\ formPageData' = [formPageData EXCEPT !.skills = newSkills]
    ELSE UNCHANGED <<skills, currentSkill, formPageData>>

\* typing into the skill input: setCurrentSkill(e.target.value)
SkillsEducationStep_onChange(text) ==
    /\ currentStep = 4
    /\ currentSkill' = text
    /\ UNCHANGED <<skills, timers, formPageData>>
    /\ Skills_unchanged

\* addSkill, called by the Add button or by the Enter key
SkillsEducationStep_addSkill ==
    /\ currentStep = 4
    /\ AddSkill(skills, currentSkill)
    /\ UNCHANGED timers
    /\ Skills_unchanged

\* a click on a suggestion: setCurrentSkill(skill) and
\* setTimeout(() => addSkill(), 0), addSkill being the function of the
\* render the click happened in
SkillsEducationStep_clickSuggestion(skill) ==
    /\ currentStep = 4
    /\ skill \in availableSuggestions
    /\ Len(timers) < MaxTimers
    /\ currentSkill' = skill
    /\ timers' = Append(timers, [skill |-> skill, skills |-> skills,
                                 currentSkill |-> currentSkill])
    /\ UNCHANGED <<skills, formPageData>>
    /\ Skills_unchanged

\* the callback of the oldest setTimeout runs
SkillsEducationStep_timeout ==
    /\ currentStep = 4
    /\ timers # <<>>
    /\ AddSkill(Head(timers).skills, Head(timers).currentSkill)
    /\ timers' = Tail(timers)
    /\ Skills_unchanged

\* a click on a popular skill the list does not hold
SkillsEducationStep_quickAdd(skill) ==
    /\ currentStep = 4
    /\ skill \in PopularSkills
    /\ ~Includes(skills, skill)
    /\ LET newSkills == Append(skills, skill)
       IN  /\ skills' = newSkills
           /\ formPageData' = [formPageData EXCEPT !.skills = newSkills]
    /\ UNCHANGED <<currentSkill, timers>>
    /\ Skills_unchanged

\* removeSkill
SkillsEducationStep_removeSkill(skillToRemove) ==
    /\ currentStep = 4
    /\ Includes(skills, skillToRemove)
    /\ LET newSkills == SelectSeq(skills, LAMBDA skill : skill # skillToRemove)
       IN  /\ skills' = newSkills
           /\ formPageData' = [formPageData EXCEPT !.skills = newSkills]
    /\ UNCHANGED <<currentSkill, timers>>
    /\ Skills_unchanged

\* the form page shows the skills and education step for the first time
SkillsInit ==
    /\ env = {}
    /\ oaClient = FALSE
    /\ oaInitialized = FALSE
    /\ genAI = FALSE
    /\ gemApiKey = FALSE
    /\ gemInitialized = FALSE
    /\ routeOpenai = FALSE
    /\ pc = "idle"
    /\ client = "none"
    /\ userData = NoProfile
    /\ requests = 0
    /\ response = NoResponse
    /\ parserInput = NotParsed
    /\ outcome = Pending
    /\ PageNotLoaded
    /\ prompt = <<>>
    /\ sentRequests = <<>>
    /\ formPageData = initialFormData
    /\ currentStep = 4
    /\ isGenerating = FALSE
    /\ projectsValues = <<>>
    /\ workHistoryValues = <<>>
    /\ educationValues = <<BlankEducation>>
    /\ skills = formPageData.skills
    /\ currentSkill = ""
    /\ timers = <<>>
    /\ referenceSiteValue = ""

SkillsNext ==
    \/ \E text \in SkillTexts : SkillsEducationStep_onChange(text)
    \/ SkillsEducationStep_addSkill
    \/ \E i \in 1..Len(suggestedSkills) :
          SkillsEducationStep_clickSuggestion(suggestedSkills[i])
    \/ SkillsEducationStep_timeout
    \/ \E skill \in PopularSkills : SkillsEducationStep_quickAdd(skill)
    \/ \E i \in 1..Len(skills) : SkillsEducationStep_removeSkill(skills[i])

SpecSkills == SkillsInit /\ [][SkillsNext]_vars

----------------------------------------------------------------------------
(* C24 *)

\* the list holds no string twice and no string that is empty once trimmed
IsSetOfSkills(list) ==
    /\ \A i, j \in 1..Len(list) : list[i] = list[j] => i = j
    /\ \A i \in 1..Len(list) : Trim(list[i]) # ""

\* C24: after any sequence of typed adds, suggestion clicks, quick adds and
\* removals, the skills of the step, and the skills it has stored into the
\* form data, hold no duplicate and no empty or whitespace-only string.
C24_SkillsAreASet ==
    /\ IsSetOfSkills(skills)
    /\ IsSetOfSkills(formPageData.skills)

\* a typed skill was added next to a popular one, and typing it again with
\* a trailing space is refused
C24_Witness ==
    /\ Len(skills) >= 2
    /\ Includes(skills, "React")
    /\ Includes(skills, "JavaScript")
    /\ currentSkill = "React "

----------------------------------------------------------------------------
(* C30 *)

\* C30: when the callback deferred by a click on a suggestion has run, the
\* skills hold the suggestion that was clicked.
C30_ClickedSuggestionIsAdded ==
    [][Len(timers') < Len(timers) =>
          Includes(skills', Head(timers).skill)]_vars

----------------------------------------------------------------------------
(* FormPage and ReferenceSiteStep *)

TOTAL_STEPS == 6

\* what the steps before the last hand to updateFormData when they are
\* submitted: name and title, the work history, the projects, skills and
\* education, the media
StepData ==
    <<{[name |-> "Jane Doe", title |-> "Engineer"],
       [name |-> "Jo", title |-> "QA"]},
      {[workHistory |-> FullProfile.workHistory]},
      {[projects |-> <<>>], [projects |-> FullProfile.projects]},
      {[skills |-> <<"TypeScript">>, education |-> FullProfile.education]},
      {[media |-> <<>>],
       [media |-> <<[file |-> "File", url |-> "data:image/png;base64,AAAA",
                     type |-> "image"]>>]}>>

\* what is typed into the reference-site input
ReferenceTexts == {"", "example", "https://example.com"}

\* the urls of popularSites
popularSites == {"https://brittanychiang.com", "https://joshwcomeau.com"}

\* z.string().url().optional().or(z.literal(''))
referenceSiteSchema(data) ==
    data.referenceSite \in {"", "https://example.com"} \cup popularSites

\* { ...prev, ...stepData }
Merge(prev, stepData) ==
    [f \in DOMAIN prev \cup DOMAIN stepData |->
        IF f \in DOMAIN stepData THEN stepData[f] ELSE prev[f]]

\* JSON.stringify(formData), written as the value JSON.parse gives back for
\* it: strings, booleans and arrays come back as they were, a File object
\* comes back as an empty object
JSON_stringify(data) ==
    [data EXCEPT !.media =
        [i \in DOMAIN data.media |-> [data.media[i] EXCEPT !.file = "{}"]]]

\* the frame of the actions of the form page
Form_unchanged ==
    UNCHANGED <<clientVars, invocationVars, prompt, sentRequests,
                projectsValues, workHistoryValues, educationValues, skills,
                currentSkill, timers, mounted, formData, generatedWebsite,
                isLoading, isRegenerating, generating, downloading, lastCall>>

\* onSubmit of one of the first five steps: updateFormData(data) and
\* onNext(); the next step is mounted with its default values, which for
\* ReferenceSiteStep is formData.referenceSite
Step_onSubmit(stepData) ==
    /\ location = "/form"
    /\ currentStep < TOTAL_STEPS
    /\ stepData \in StepData[currentStep]
    /\ formPageData' = Merge(formPageData, stepData)
    /\ currentStep' = currentStep + 1
    /\ referenceSiteValue' =
          IF currentStep' = TOTAL_STEPS THEN formPageData'.referenceSite ELSE ""
    /\ UNCHANGED <<isGenerating, savedFormData, location>>
    /\ Form_unchanged

\* handlePrevious, behind the Back button, which the last step disables
\* while isGenerating
FormPage_handlePrevious ==
    /\ location = "/form"
    /\ currentStep > 1
    /\ ~isGenerating
    /\ currentStep' = currentStep - 1
    /\ referenceSiteValue' = ""
    /\ UNCHANGED <<formPageData, isGenerating, savedFormData, location>>
    /\ Form_unchanged

\* a faulty variant of ReferenceSiteStep_onChange: the typed value reaches
\* the form of the step only
ReferenceSiteStep_onChangeRegisterOnly(text) ==
    /\ location = "/form"
    /\ currentStep = TOTAL_STEPS
    /\ referenceSiteValue' = text
    /\ UNCHANGED <<formPageData, currentStep, isGenerating, savedFormData,
                   location>>
    /\ Form_unchanged

\* onChange of the reference-site input: register('referenceSite').onChange(e)
\* and updateFormData({ referenceSite: e.target.value })
ReferenceSiteStep_onChange(text) ==
    /\ location = "/form"
    /\ currentStep = TOTAL_STEPS
    /\ referenceSiteValue' = text
    /\ formPageData' = Merge(formPageData, [referenceSite |-> text])
    /\ UNCHANGED <<currentStep, isGenerating, savedFormData, location>>
    /\ Form_unchanged

\* selectReferenceSite: setValue('referenceSite', url) and
\* updateFormData({ referenceSite: url })
ReferenceSiteStep_selectReferenceSite(url) ==
    /\ location = "/form"
    /\ currentStep = TOTAL_STEPS
    /\ referenceSiteValue' = url
    /\ formPageData' = Merge(formPageData, [referenceSite |-> url])
    /\ UNCHANGED <<currentStep, isGenerating, savedFormData, location>>
    /\ Form_unchanged

\* onSubmit of ReferenceSiteStep, called by handleSubmit when the value
\* passes referenceSiteSchema: updateFormData(data), then onGenerate(), which
\* is handleGenerateWebsite of the render the submit happened in: it writes
\* the formData of that render, from before the update, to local storage
ReferenceSiteStep_onSubmit ==
    /\ location = "/form"
    /\ currentStep = TOTAL_STEPS
    /\ ~isGenerating
    /\ LET data == [referenceSite |-> referenceSiteValue]
       IN  /\ referenceSiteSchema(data)
           /\ formPageData' = Merge(formPageData, data)
    /\ isGenerating' = TRUE
    /\ savedFormData' = JSON_stringify(formPageData)
    /\ UNCHANGED <<currentStep, referenceSiteValue, location>>
    /\ Form_unchanged

\* the callback of setTimeout(..., 1000) in handleGenerateWebsite:
\* window.location.href = '/preview'
FormPage_navigate ==
    /\ location = "/form"
    /\ isGenerating
    /\ location' = "/preview"
    /\ UNCHANGED <<formPageData, currentStep, isGenerating, savedFormData,
                   referenceSiteValue>>
    /\ Form_unchanged

\* the form page is opened: nothing is stored, the first step is shown
FormInit ==
    /\ env = {}
    /\ oaClient = FALSE
    /\ oaInitialized = FALSE
    /\ genAI = FALSE
    /\ gemApiKey = FALSE
    /\ gemInitialized = FALSE
    /\ routeOpenai = FALSE
    /\ pc = "idle"
    /\ client = "none"
    /\ userData = NoProfile
    /\ requests = 0
    /\ response = NoResponse
    /\ parserInput = NotParsed
    /\ outcome = Pending
    /\ savedFormData = Null
    /\ location = "/form"
    /\ mounted = FALSE
    /\ formData = Null
    /\ generatedWebsite = Null
    /\ isLoading = TRUE
    /\ isRegenerating = FALSE
    /\ generating = <<>>
    /\ downloading = 0
    /\ lastCall = Pending
    /\ prompt = <<>>
    /\ sentRequests = <<>>
    /\ formPageData = initialFormData
    /\ currentStep = 1
    /\ isGenerating = FALSE
    /\ projectsValues = <<>>
    /\ workHistoryValues = <<>>
    /\ educationValues = <<>>
    /\ skills = <<>>
    /\ currentSkill = ""
    /\ timers = <<>>
    /\ referenceSiteValue = ""

FormNext ==
    \/ \E s \in 1..(TOTAL_STEPS - 1) : \E stepData \in StepData[s] :
          Step_onSubmit(stepData)
    \/ FormPage_handlePrevious
    \/ \E text \in ReferenceTexts : ReferenceSiteStep_onChange(text)
    \/ \E url \in popularSites : ReferenceSiteStep_selectReferenceSite(url)
    \/ ReferenceSiteStep_onSubmit
    \/ FormPage_navigate

SpecForm == FormInit /\ [][FormNext]_vars

----------------------------------------------------------------------------
(* C29 *)

\* C29: in the step in which Generate is submitted, the profile written to
\* local storage is the form data with every update applied, the submitted
\* referenceSite included; and the browser is at the preview page only
\* after the profile was written.
C29_StoredProfileHasEveryUpdate ==
    /\ [][(isGenerating' /\ ~isGenerating) =>
            /\ savedFormData' = JSON_stringify(formPageData')
            /\ savedFormData'.referenceSite = referenceSiteValue]_vars
    /\ [](location = "/preview" => savedFormData # Null)

\* Generate was submitted with a typed reference site, after the other steps
\* had stored a name and an image
C29_Witness ==
    /\ isGenerating
    /\ savedFormData # Null
    /\ savedFormData.referenceSite = "https://example.com"
    /\ savedFormData.name = "Jane Doe"
    /\ savedFormData.media # <<>>

====
